---------------------------- MODULE Spec2Model ----------------------------
(***************************************************************************)
(* MiniFS: the file system controller (src/src/fs/mod.rs) over its         *)
(* superblock, the two bitmaps, the inode table, the cached data area and  *)
(* the block device.                                                       *)
(*                                                                         *)
(* Representation.  The geometry is the program's own (4096-byte blocks,   *)
(* 16384 blocks, 4096 inode slots); the large arrays are kept sparse:      *)
(*   - a bitmap's `bits` is the set of indices whose bit is 1;             *)
(*   - the inode vector is its length `len` plus the records that differ   *)
(*     from Inode::empty(), every other slot below `len` is the sentinel;  *)
(*   - a 4096-byte block is the sequence of its bytes up to the last       *)
(*     non-zero one, an absent block is all zero;                          *)
(*   - strings (paths, names, file contents) are sequences of byte codes.  *)
(* Directory blocks are bincode-encoded byte for byte (EncodeDirectory /   *)
(* DecodeDirectory).  The time stamps of an inode (atime, mtime, ctime)    *)
(* never steer the controller and are left out; an inode id is "" or the   *)
(* 36-character text of a random UUID, written "uuid".                     *)
(* Option<T> is a sequence of length 0 (None) or 1 (Some).                 *)
(***************************************************************************)
EXTENDS Integers, Sequences, FiniteSets, TLC

\* ------------------------------------------------------------- bounds
MaxSteps == 4
\* Number of operations of one run.

MaxName == 2
\* Names used by the operations: the first MaxName of NamePool.

MaxContent == 3
\* File contents used by the operations: the first MaxContent of ContentPool.

MaxPartSteps == 4

\* Number of calls in one run on the volume that holds many directories.
MaxFilledSteps == 2
\* Number of calls in one run of the parts on their own.

\* ---------------------------------------------------------- constants
BLOCK_SIZE == 4096

DIRECT_PTRS == 12

DISK_BYTES == 64 * 1024 * 1024

INODE_GEOM_SIZE == 128

UUID_LEN == 36

INODE_BASE_LEN == 156
\* bincode length of an inode with id "" and both indirect pointers None:
\* 8 (id length) + 4 (type) + 8 (size) + 2 (permissions) + 4 + 4 (uid, gid)
\* + 4 (link_count) + 3 * 8 (atime, mtime, ctime) + 12 * 8 (direct_blocks)
\* + 1 + 1 (the two Option tags).

MAGIC == <<57005, 48879>>
\* 0xDEADBEEF as its two 16-bit halves 0xDEAD, 0xBEEF.

BIG == 2147483647
\* Every decoded integer above this saturates here.

SLASH == 47

DOT == 46

\* ------------------------------------------------------------ helpers
None == <<>>

Some(v) == <<v>>

IsSome(o) == Len(o) = 1

Min(S) == CHOOSE m \in S : \A k \in S : m <= k

Max(S) == CHOOSE m \in S : \A k \in S : m >= k

EmptyMap == <<>>

Put(f, k, v) == (k :> v) @@ f

Del(f, k) == [j \in DOMAIN f \ {k} |-> f[j]]

\* ---------------------------------------------------------- superblock
SuperBlockNew(total_inodes) ==
  LET block_size == BLOCK_SIZE
      total_blocks == DISK_BYTES \div block_size
      superblock_size == 1
      inode_bitmap_size == (total_inodes + 8 * block_size - 1) \div (8 * block_size)
      block_bitmap_size == (total_blocks + 8 * block_size - 1) \div (8 * block_size)
      inode_table_size == (total_inodes * INODE_GEOM_SIZE + block_size - 1) \div block_size
      inode_bitmap_start == superblock_size
      block_bitmap_start == inode_bitmap_start + inode_bitmap_size
      inode_table_start == block_bitmap_start + block_bitmap_size
      data_block_start == inode_table_start + inode_table_size
  IN [ fs_type |-> "MiNiFS",
       block_size |-> block_size,
       total_blocks |-> total_blocks,
       free_blocks |-> total_blocks,
       data_block_start |-> data_block_start,
       total_inodes |-> total_inodes,
       free_inode |-> total_inodes,
       inode_table_start |-> inode_table_start,
       inode_bitmap_start |-> inode_bitmap_start,
       block_bitmap_start |-> block_bitmap_start,
       mounted |-> FALSE,
       dirty |-> FALSE,
       magic |-> MAGIC ]

ZeroSuperBlock ==
  [ fs_type |-> "", block_size |-> 0, total_blocks |-> 0, free_blocks |-> 0,
    data_block_start |-> 0, total_inodes |-> 0, free_inode |-> 0,
    inode_table_start |-> 0, inode_bitmap_start |-> 0, block_bitmap_start |-> 0,
    mounted |-> FALSE, dirty |-> FALSE, magic |-> <<0, 0>> ]

\* -------------------------------------------------------------- bitmaps
\* The lowest index in 0 .. nbits-1 that is not in bits, as an Option.  Among
\* 0 .. Cardinality(bits) at least one index is clear.
LowestClear(bits, nbits) ==
  LET hi == Min({Cardinality(bits), nbits - 1})
      clear == {i \in 0 .. hi : i \notin bits}
  IN IF clear = {} THEN None ELSE Some(Min(clear))

InodeBitmapNew(total_inodes, start_block) ==
  [ bits |-> {}, byte_len |-> (total_inodes + 7) \div 8,
    total_inodes |-> total_inodes, free_inodes |-> total_inodes,
    start_block |-> start_block ]

\* The scan runs over whole bytes, so over byte_len * 8 bits.
InodeBitmapAlloc(bm) ==
  LET r == LowestClear(bm.bits, bm.byte_len * 8)
  IN IF IsSome(r)
     THEN [ bm |-> [bm EXCEPT !.bits = @ \cup {r[1]}, !.free_inodes = @ - 1], idx |-> r ]
     ELSE [ bm |-> bm, idx |-> None ]

InodeBitmapFree(bm, inode_index) ==
  IF inode_index >= bm.total_inodes THEN bm
  ELSE IF inode_index \in bm.bits
       THEN [bm EXCEPT !.bits = @ \ {inode_index}, !.free_inodes = @ + 1]
       ELSE bm

\* InodeBitmap::is_used: no guard, bits[inode_index / 8] outside the vector
\* aborts the program.
InodeBitmapIsUsed(bm, inode_index) ==
  IF inode_index \div 8 >= bm.byte_len THEN [ used |-> FALSE, panic |-> TRUE ]
  ELSE [ used |-> inode_index \in bm.bits, panic |-> FALSE ]

InodeBitmapAllocSpecific(bm, inode_index) ==
  IF inode_index \in bm.bits
  THEN [ bm |-> bm, ok |-> FALSE ]
  ELSE [ bm |-> [bm EXCEPT !.bits = @ \cup {inode_index}, !.free_inodes = @ - 1],
         ok |-> TRUE ]

DataBlockBitmapNew(total_blocks, start_block) ==
  [ bits |-> {}, byte_len |-> (total_blocks + 7) \div 8,
    total_blocks |-> total_blocks, free_blocks |-> total_blocks,
    start_block |-> start_block ]

DataBlockBitmapAlloc(bm) ==
  LET r == LowestClear(bm.bits, bm.byte_len * 8)
  IN IF IsSome(r)
     THEN [ bm |-> [bm EXCEPT !.bits = @ \cup {r[1]}, !.free_blocks = @ - 1], idx |-> r ]
     ELSE [ bm |-> bm, idx |-> None ]

\* The guard is `>` (not `>=`): block_index = total_blocks passes it and
\* indexes bits[total_blocks / 8], which is outside the vector when
\* total_blocks is a multiple of 8 (panic).
DataBlockBitmapFree(bm, block_index) ==
  IF block_index > bm.total_blocks THEN [ bm |-> bm, panic |-> FALSE ]
  ELSE IF block_index \div 8 >= bm.byte_len THEN [ bm |-> bm, panic |-> TRUE ]
  ELSE IF block_index \in bm.bits
       THEN [ bm |-> [bm EXCEPT !.bits = @ \ {block_index}, !.free_blocks = @ + 1],
              panic |-> FALSE ]
       ELSE [ bm |-> bm, panic |-> FALSE ]

\* DataBlockBitmap::is_used: no guard either.
DataBlockBitmapIsUsed(bm, block_index) ==
  IF block_index \div 8 >= bm.byte_len THEN [ used |-> FALSE, panic |-> TRUE ]
  ELSE [ used |-> block_index \in bm.bits, panic |-> FALSE ]

\* --------------------------------------------------------------- inodes
ZeroPtrs == [i \in 1 .. DIRECT_PTRS |-> 0]

InodeNew(inode_type, uid, gid, permissions) ==
  [ id |-> "uuid", inode_type |-> inode_type, size |-> 0,
    permissions |-> permissions, uid |-> uid, gid |-> gid, link_count |-> 1,
    direct_blocks |-> ZeroPtrs, indirect_block |-> None,
    double_indirect_block |-> None ]

InodeEmpty ==
  [ id |-> "", inode_type |-> "File", size |-> 0, permissions |-> 0,
    uid |-> 0, gid |-> 0, link_count |-> 0,
    direct_blocks |-> ZeroPtrs, indirect_block |-> None,
    double_indirect_block |-> None ]

\* add_block recording the block after the one it was given.
AddBlockOffByOne(inode, block_id) ==
  LET zero == {i \in 1 .. DIRECT_PTRS : inode.direct_blocks[i] = 0}
  IN IF zero # {}
     THEN [ ok |-> TRUE,
            inode |-> [inode EXCEPT !.direct_blocks[Min(zero)] = block_id + 1] ]
     ELSE [ ok |-> FALSE, inode |-> inode ]

\* Inode::add_block: the first direct pointer that is 0, else the indirect one.
AddBlock(inode, block_id) ==
  LET zero == {i \in 1 .. DIRECT_PTRS : inode.direct_blocks[i] = 0}
  IN IF zero # {}
     THEN [ ok |-> TRUE, inode |-> [inode EXCEPT !.direct_blocks[Min(zero)] = block_id] ]
     ELSE IF inode.indirect_block = None
          THEN [ ok |-> TRUE, inode |-> [inode EXCEPT !.indirect_block = Some(block_id)] ]
          ELSE [ ok |-> FALSE, inode |-> inode ]

\* ---------------------------------------------------------- inode table
\* InodeTable::new as src/ has it: an empty vector.
InodeTableNew(start_block, total_inodes) ==
  [ inodes |-> EmptyMap, len |-> 0, junk |-> EmptyMap, start_block |-> start_block,
    total_inodes |-> total_inodes ]

\* InodeTable::new of the revision the specification describes (4.3: "a vector
\* of exactly N_I inode records; empty slots hold a zeroed Inode sentinel").
InodeTableNewSized(start_block, total_inodes) ==
  [ inodes |-> EmptyMap, len |-> total_inodes, junk |-> EmptyMap,
    start_block |-> start_block, total_inodes |-> total_inodes ]

\* inodes.get(index): None outside the vector.
GetInode(t, index) ==
  IF index < t.len
  THEN Some(IF index \in DOMAIN t.inodes THEN t.inodes[index] ELSE InodeEmpty)
  ELSE None

\* inodes[index] = inode, for index < len: the whole record is replaced.
SetInode(t, index, inode) ==
  [t EXCEPT !.inodes = IF inode = InodeEmpty THEN Del(@, index) ELSE Put(@, index, inode),
            !.junk = [r \in {x \in DOMAIN @ : x \div INODE_BASE_LEN # index} |-> @[r]]]


\* The revision of alloc_inode's guard the specification describes (4.3:
\* "fails if ... allocated >= total", allocated being the number of slots
\* whose id is non-empty).
AllocatedInodes(t) == Cardinality({i \in DOMAIN t.inodes : t.inodes[i].id # ""})

\* InodeTable::alloc_inode.  r = "src": the guard and the indexed store as
\* src/ has them; storing at an index outside the vector aborts the program.
AllocInode(r, t, bm, inode_type, uid, gid, perm) ==
  LET full == IF r = "src" THEN t.len >= t.total_inodes
              ELSE AllocatedInodes(t) >= t.total_inodes
      a == InodeBitmapAlloc(bm)
  IN IF full THEN [ t |-> t, bm |-> bm, idx |-> None, panic |-> FALSE ]
     ELSE IF IsSome(a.idx)
          THEN IF a.idx[1] < t.len
               THEN [ t |-> SetInode(t, a.idx[1], InodeNew(inode_type, uid, gid, perm)),
                      bm |-> a.bm, idx |-> a.idx, panic |-> FALSE ]
               ELSE [ t |-> t, bm |-> a.bm, idx |-> None, panic |-> TRUE ]
          ELSE [ t |-> t, bm |-> a.bm, idx |-> None, panic |-> FALSE ]

\* InodeTable::free_inode: the indexed store comes first and aborts the
\* program outside the vector.
FreeInode(t, bm, inode_index) ==
  IF inode_index >= t.len THEN [ t |-> t, bm |-> bm, panic |-> TRUE ]
  ELSE [ t |-> SetInode(t, inode_index, InodeEmpty),
         bm |-> InodeBitmapFree(bm, inode_index), panic |-> FALSE ]

\* ---------------------------------------------------------------- bytes
Pow256 == <<1, 256, 65536, 16777216>>

\* n as w little-endian bytes (n < 2^31, so bytes 5.. are 0).
LE(n, w) == [i \in 1 .. w |-> IF i > 4 THEN 0 ELSE (n \div Pow256[i]) % 256]

\* Byte at 0-based offset off of a block given without its trailing zeros.
ByteAt(blk, off) == IF off < Len(blk) THEN blk[off + 1] ELSE 0

\* The little-endian integer in the w bytes at offset off, saturated at BIG.
ReadInt(blk, off, w) ==
  IF (\E i \in 4 .. w - 1 : ByteAt(blk, off + i) # 0) \/ ByteAt(blk, off + 3) >= 128
  THEN BIG
  ELSE ByteAt(blk, off) + 256 * ByteAt(blk, off + 1) + 65536 * ByteAt(blk, off + 2)
       + 16777216 * ByteAt(blk, off + 3)

\* A buffer without its trailing zero bytes.
Strip(buf) ==
  LET nz == {i \in 1 .. Len(buf) : buf[i] # 0}
  IN IF nz = {} THEN <<>> ELSE SubSeq(buf, 1, Max(nz))

\* data[..n] of a block: its first n bytes, zeros included.
Prefix(blk, n) == [i \in 1 .. n |-> ByteAt(blk, i - 1)]

\* ------------------------------------------------------------ directory
DirectoryNew(inode_index) ==
  [ inode_index |-> inode_index, entries |-> <<>>, index_map |-> EmptyMap ]

\* rebuild_index_map: later entries of a name replace earlier ones.
RebuildIndexMap(dir) ==
  [dir EXCEPT !.index_map =
     [nm \in {dir.entries[i].name : i \in 1 .. Len(dir.entries)} |->
        Max({i \in 1 .. Len(dir.entries) : dir.entries[i].name = nm})]]

DirectoryAdd(dir, inode_index, name, entry_type) ==
  IF name \in DOMAIN dir.index_map
  THEN [ ok |-> FALSE, dir |-> dir ]
  ELSE [ ok |-> TRUE,
         dir |-> [dir EXCEPT
                    !.entries = Append(@, [ name |-> name, inode_index |-> inode_index,
                                            entry_type |-> entry_type ]),
                    !.index_map = Put(@, name, Len(dir.entries) + 1)] ]

DirectoryRemove(dir, name) ==
  IF name \in DOMAIN dir.index_map
  THEN LET idx == dir.index_map[name]
           rest == [i \in 1 .. Len(dir.entries) - 1 |->
                      IF i < idx THEN dir.entries[i] ELSE dir.entries[i + 1]]
       IN [ ok |-> TRUE, dir |-> RebuildIndexMap([dir EXCEPT !.entries = rest]) ]
  ELSE [ ok |-> FALSE, dir |-> dir ]

\* find returning the position of the entry in place of its inode index.
DirectoryFindPosition(dir, name) ==
  IF name \in DOMAIN dir.index_map
  THEN Some(dir.index_map[name])
  ELSE None

DirectoryFind(dir, name) ==
  IF name \in DOMAIN dir.index_map
  THEN Some(dir.entries[dir.index_map[name]].inode_index)
  ELSE None

EntryTypeCode(entry_type) == IF entry_type = "File" THEN 0 ELSE 1

RECURSIVE EncodeEntries(_)
EncodeEntries(entries) ==
  IF entries = <<>> THEN <<>>
  ELSE LET e == Head(entries)
       IN LE(Len(e.name), 8) \o e.name \o LE(e.inode_index, 8)
          \o LE(EntryTypeCode(e.entry_type), 4) \o EncodeEntries(Tail(entries))

\* bincode::serialize(&Directory): inode_index, the entry count, the entries;
\* index_map is skipped.
EncodeDirectory(dir) ==
  LE(dir.inode_index, 8) \o LE(Len(dir.entries), 8) \o EncodeEntries(dir.entries)

\* Decodes n entries from offset pos of a BLOCK_SIZE-byte block.  An entry
\* takes at least 20 bytes, so n entries that cannot fit end in an error.
RECURSIVE DecodeEntries(_, _, _, _)
DecodeEntries(blk, pos, n, acc) ==
  IF n = 0 THEN [ ok |-> TRUE, entries |-> acc ]
  ELSE IF n > (BLOCK_SIZE - pos) \div 20 THEN [ ok |-> FALSE, entries |-> <<>> ]
  ELSE LET nl == ReadInt(blk, pos, 8)
       IN IF nl > BLOCK_SIZE - pos - 20 THEN [ ok |-> FALSE, entries |-> <<>> ]
          ELSE LET name == [i \in 1 .. nl |-> ByteAt(blk, pos + 8 + i - 1)]
                   ino == ReadInt(blk, pos + 8 + nl, 8)
                   ty == ReadInt(blk, pos + 16 + nl, 4)
               IN IF (\E i \in 1 .. nl : name[i] >= 128) \/ ty > 1
                  THEN [ ok |-> FALSE, entries |-> <<>> ]
                  ELSE DecodeEntries(blk, pos + 20 + nl, n - 1,
                         Append(acc, [ name |-> name, inode_index |-> ino,
                                       entry_type |-> IF ty = 0 THEN "File"
                                                      ELSE "Directory" ]))

\* bincode::deserialize::<Directory>(block): index_map comes back empty.
\* Bytes after the last entry are ignored.
DecodeDirectory(blk) ==
  LET r == DecodeEntries(blk, 16, ReadInt(blk, 8, 8), <<>>)
  IN [ ok |-> r.ok,
       dir |-> [ inode_index |-> ReadInt(blk, 0, 8), entries |-> r.entries,
                 index_map |-> EmptyMap ] ]

DirectoryLoadFromBytes(blk) ==
  LET r == DecodeDirectory(blk)
  IN [ ok |-> r.ok, dir |-> RebuildIndexMap(r.dir) ]

\* ------------------------------------------------------------ data area
DataAreaNew(start_block, total_blocks) ==
  [ blocks |-> EmptyMap, total_blocks |-> total_blocks,
    start_block |-> start_block, dirty |-> {} ]

\* DataArea::write_block: the index is used as it is (no start_block is
\* subtracted); the rest of the slot is zero-filled.
DataAreaWriteBlock(da, index, buf) ==
  IF index >= da.total_blocks \/ Len(buf) > BLOCK_SIZE
  THEN [ ok |-> FALSE, da |-> da ]
  ELSE [ ok |-> TRUE,
         da |-> [da EXCEPT
                   !.blocks = IF Strip(buf) = <<>> THEN Del(@, index)
                              ELSE Put(@, index, Strip(buf)),
                   !.dirty = @ \cup {index}] ]

DataAreaReadBlock(da, index) ==
  IF index >= da.total_blocks THEN None
  ELSE Some(IF index \in DOMAIN da.blocks THEN da.blocks[index] ELSE <<>>)


\* --------------------------------------------------------- block device
(***************************************************************************)
(* The image file.  Block 0 and the bitmap blocks are kept by what they    *)
(* hold: [kind |-> "sb", val |-> superblock], [kind |-> "bits", val |->    *)
(* set of bit indices], [kind |-> "data", val |-> bytes].  The serialized  *)
(* inode vector spans many blocks and is kept once, as `tab` (the vector   *)
(* written by the last InodeTable::sync and its first block); a block of   *)
(* its span that a later write replaced is in `blocks`, which takes        *)
(* precedence.  A block in neither is all zero.                            *)
(*                                                                         *)
(* The vector takes more blocks than the superblock reserves for it, so    *)
(* data blocks are written into its image and read back as fields of       *)
(* sentinel records.  `junk` of a table is those bytes: offset r (in the   *)
(* records laid out at INODE_BASE_LEN bytes each) |-> non-zero byte.       *)
(***************************************************************************)
BlankDisk == [ blocks |-> EmptyMap, tab |-> None ]

\* Bytes that the id and the indirect pointers add to the base length of an inode.
InodeExtraLen(inode) ==
  (IF inode.id = "" THEN 0 ELSE UUID_LEN)
  + (IF IsSome(inode.indirect_block) THEN 8 ELSE 0)
  + (IF IsSome(inode.double_indirect_block) THEN 8 ELSE 0)

RECURSIVE SumExtra(_, _)
SumExtra(inodes, S) ==
  IF S = {} THEN 0
  ELSE LET i == Min(S) IN InodeExtraLen(inodes[i]) + SumExtra(inodes, S \ {i})

\* bincode::serialize(&self.inodes).len(): the 8-byte element count and the records.
TableSerializedLen(t) ==
  8 + INODE_BASE_LEN * t.len + SumExtra(t.inodes, DOMAIN t.inodes)

\* Blocks of the length-prefixed image: (len + 8 + 4095) / 4096.
TableBlocks(serialized_len) == (serialized_len + 8 + BLOCK_SIZE - 1) \div BLOCK_SIZE

\* The blocks the stored table image spans.
TabSpan(disk) ==
  IF IsSome(disk.tab)
  THEN disk.tab[1].start .. disk.tab[1].start + TableBlocks(disk.tab[1].serialized_len) - 1
  ELSE {}

\* Offset in the image (length prefix included) behind the last record that
\* is not a sentinel.
LiveEnd(tab) ==
  IF DOMAIN tab.inodes = {} THEN 16
  ELSE 16 + INODE_BASE_LEN * (Max(DOMAIN tab.inodes) + 1)
       + SumExtra(tab.inodes, DOMAIN tab.inodes)

\* Block k of the image lies wholly behind the last non-sentinel record.
BehindLive(tab, k) == k * BLOCK_SIZE >= LiveEnd(tab)

\* Offset in the image of junk offset r (behind the last non-sentinel record).
ImageOffset(tab, r) == 16 + SumExtra(tab.inodes, DOMAIN tab.inodes) + r

\* The bytes of block k of the image, for a block behind the live records.
TabChunkBytes(tab, k) ==
  LET e == 16 + SumExtra(tab.inodes, DOMAIN tab.inodes)
      offs == {r \in DOMAIN tab.junk : (e + r) \div BLOCK_SIZE = k}
  IN IF offs = {} THEN <<>>
     ELSE [i \in 1 .. (e + Max(offs) - k * BLOCK_SIZE + 1) |->
             LET r == k * BLOCK_SIZE + (i - 1) - e
             IN IF r \in DOMAIN tab.junk THEN tab.junk[r] ELSE 0]

\* The junk a data block written over block k of the image leaves: its
\* non-zero bytes inside the serialized length.
JunkOfBlock(tab, k, bytes) ==
  LET e == 16 + SumExtra(tab.inodes, DOMAIN tab.inodes)
      idx == {i \in 1 .. Len(bytes) :
                bytes[i] # 0 /\ k * BLOCK_SIZE + (i - 1) < tab.serialized_len + 8}
  IN [r \in {k * BLOCK_SIZE + (i - 1) - e : i \in idx} |->
        bytes[r + e - k * BLOCK_SIZE + 1]]

\* The vector still decodes iff no junk byte falls on an id length (field
\* offsets 0..7), on an Option tag (154, 155) or makes the type tag (8..11)
\* exceed 2: each of those is an invalid tag or lengthens a record, and the
\* decoder then runs out of bytes.
JunkDecodes(junk) ==
  \A r \in DOMAIN junk :
    LET f == r % INODE_BASE_LEN
    IN f \in 12 .. 153 \/ (f = 8 /\ junk[r] <= 2)

\* BlockDevice::write_block of every block but the table's.
DiskWrite(disk, addr, v) ==
  [disk EXCEPT !.blocks =
     IF v = [ kind |-> "data", val |-> <<>> ] /\ addr \notin TabSpan(disk)
     THEN Del(@, addr) ELSE Put(@, addr, v)]

\* InodeTable::sync: every block of the image is written, so whatever else
\* lay in its span is replaced.
InodeTableSync(t, disk) ==
  LET n == TableSerializedLen(t)
      span == t.start_block .. t.start_block + TableBlocks(n) - 1
  IN [ blocks |-> [a \in DOMAIN disk.blocks \ span |-> disk.blocks[a]],
       tab |-> Some([ start |-> t.start_block, inodes |-> t.inodes, len |-> t.len,
                      junk |-> t.junk, serialized_len |-> n ]) ]

\* InodeTable::load.  The first block must be an image's own (else the
\* length prefix is that of another structure, or 0, and the vector does not
\* decode).  A block of the span that a data block replaced must lie behind
\* the live records (the data slots of this geometry start at block 128 of
\* the image, the records of the first 3000 inodes end before it) and must
\* leave the vector decodable.
InodeTableLoad(disk, start_block) ==
  LET tab == disk.tab[1]
      over == DOMAIN disk.blocks \cap TabSpan(disk)
      kept == [r \in {x \in DOMAIN tab.junk :
                        ImageOffset(tab, x) \div BLOCK_SIZE + start_block \notin over}
                 |-> tab.junk[r]]
      RECURSIVE Merge(_, _)
      Merge(S, acc) ==
        IF S = {} THEN acc
        ELSE LET a == Min(S)
             IN Merge(S \ {a}, JunkOfBlock(tab, a - start_block, disk.blocks[a].val) @@ acc)
  IN IF /\ IsSome(disk.tab)
        /\ tab.start = start_block
        /\ start_block \notin DOMAIN disk.blocks
        /\ \A a \in over : disk.blocks[a].kind = "data" /\ BehindLive(tab, a - start_block)
        /\ JunkDecodes(Merge(over, kept))
     THEN [ ok |-> TRUE,
            t |-> [ inodes |-> tab.inodes, len |-> tab.len, junk |-> Merge(over, kept),
                    start_block |-> start_block, total_inodes |-> tab.len ] ]
     ELSE [ ok |-> FALSE, t |-> InodeTableNew(start_block, 0) ]

\* InodeBitmap::sync / DataBlockBitmap::sync: ceil(byte_len / 4096) blocks
\* from start_block; block i holds the bits i*32768 .. (i+1)*32768-1.
RECURSIVE BitmapSync(_, _, _, _, _)
BitmapSync(bits, byte_len, start_block, i, disk) ==
  IF i >= (byte_len + BLOCK_SIZE - 1) \div BLOCK_SIZE THEN disk
  ELSE BitmapSync(bits, byte_len, start_block, i + 1,
         DiskWrite(disk, start_block + i,
           [ kind |-> "bits",
             val |-> {b \in bits : b \div (8 * BLOCK_SIZE) = i} ]))

\* The bits a bitmap load reads: size_in_block blocks from start_block,
\* truncated to ceil(total / 8) bytes.  Blocks 1 and 2 are written by the
\* bitmaps only; a block that holds no bitmap is read as no bit.
RECURSIVE BitmapLoadBits(_, _, _, _)
BitmapLoadBits(disk, start_block, total, i) ==
  IF i >= (total + 8 * BLOCK_SIZE - 1) \div (8 * BLOCK_SIZE) THEN {}
  ELSE LET a == start_block + i
           got == IF a \in DOMAIN disk.blocks /\ disk.blocks[a].kind = "bits"
                  THEN disk.blocks[a].val ELSE {}
       IN {b \in got : b < ((total + 7) \div 8) * 8}
          \cup BitmapLoadBits(disk, start_block, total, i + 1)

InodeBitmapLoad(disk, start_block, total_inodes) ==
  LET bits == BitmapLoadBits(disk, start_block, total_inodes, 0)
  IN [ bits |-> bits, byte_len |-> (total_inodes + 7) \div 8,
       total_inodes |-> total_inodes,
       free_inodes |-> total_inodes - Cardinality(bits),
       start_block |-> start_block ]

DataBlockBitmapLoad(disk, start_block, total_blocks) ==
  LET bits == BitmapLoadBits(disk, start_block, total_blocks, 0)
  IN [ bits |-> bits, byte_len |-> (total_blocks + 7) \div 8,
       total_blocks |-> total_blocks,
       free_blocks |-> total_blocks - Cardinality(bits),
       start_block |-> start_block ]

\* DataArea::sync: every dirty slot i goes to device block start_block + i.
RECURSIVE DataAreaSyncSlots(_, _, _)
DataAreaSyncSlots(da, S, disk) ==
  IF S = {} THEN disk
  ELSE LET i == Min(S)
           v == IF i \in DOMAIN da.blocks THEN da.blocks[i] ELSE <<>>
       IN DataAreaSyncSlots(da, S \ {i},
            DiskWrite(disk, da.start_block + i, [ kind |-> "data", val |-> v ]))

\* A sync that writes every slot, dirty or not.
DataAreaSyncEverySlot(da, disk) ==
  [ da |-> [da EXCEPT !.dirty = {}],
    disk |-> DataAreaSyncSlots(da, 0 .. da.total_blocks - 1, disk) ]

DataAreaSync(da, disk) ==
  [ da |-> [da EXCEPT !.dirty = {}], disk |-> DataAreaSyncSlots(da, da.dirty, disk) ]

\* The bytes of device block a as a data slot reads them.  A block of the
\* table image before the end of the live records holds (non-zero) inode
\* records, written <<255>>.
DiskBlockBytes(disk, a) ==
  IF a \in DOMAIN disk.blocks
  THEN IF disk.blocks[a].kind = "data" THEN disk.blocks[a].val ELSE <<255>>
  ELSE IF a \in TabSpan(disk)
       THEN IF BehindLive(disk.tab[1], a - disk.tab[1].start)
            THEN TabChunkBytes(disk.tab[1], a - disk.tab[1].start)
            ELSE <<255>>
       ELSE <<>>

\* DataArea::load: slot i is read from device block start_block + i.
DataAreaLoad(da, disk) ==
  LET addrs == {a \in DOMAIN disk.blocks \cup TabSpan(disk) :
                  /\ a >= da.start_block
                  /\ a < da.start_block + da.total_blocks
                  /\ DiskBlockBytes(disk, a) # <<>>}
  IN [da EXCEPT !.blocks = [i \in {a - da.start_block : a \in addrs} |->
                              DiskBlockBytes(disk, i + da.start_block)],
                !.dirty = {}]

\* ----------------------------------------------------------------- paths
\* format!("{}/{}", parent_path, name)
Join(parent_path, name) == parent_path \o <<SLASH>> \o name

IsSpace(c) == c \in {9, 10, 11, 12, 13, 32}

\* str::trim
Trim(str) ==
  LET keep == {i \in 1 .. Len(str) : ~IsSpace(str[i])}
  IN IF keep = {} THEN <<>> ELSE SubSeq(str, Min(keep), Max(keep))

\* str::trim_start_matches('/')
TrimStartSlash(str) ==
  LET keep == {i \in 1 .. Len(str) : str[i] # SLASH}
  IN IF keep = {} THEN <<>> ELSE SubSeq(str, Min(keep), Len(str))

\* str::trim_end_matches('/')
TrimEndSlash(str) ==
  LET keep == {i \in 1 .. Len(str) : str[i] # SLASH}
  IN IF keep = {} THEN <<>> ELSE SubSeq(str, 1, Max(keep))

\* split('/').filter(|s| !s.is_empty()).collect()
RECURSIVE Components(_)
Components(str) ==
  LET cuts == {i \in 1 .. Len(str) : str[i] = SLASH}
  IN IF str = <<>> THEN <<>>
     ELSE IF cuts = {} THEN <<str>>
     ELSE LET c == Min(cuts)
              rest == Components(SubSeq(str, c + 1, Len(str)))
          IN IF c = 1 THEN rest ELSE <<SubSeq(str, 1, c - 1)>> \o rest

\* utils::split_path: [ok, parent, name].  After trim_end_matches the path
\* never equals "/", so "Cannot create root" is never returned.
SplitPath(path0) ==
  LET path == TrimEndSlash(Trim(path0))
      cuts == {i \in 1 .. Len(path) : path[i] = SLASH}
  IN IF Trim(path0) = <<>> THEN [ ok |-> FALSE, parent |-> <<>>, name |-> <<>> ]
     ELSE IF cuts = {} THEN [ ok |-> TRUE, parent |-> <<SLASH>>, name |-> path ]
     ELSE IF Max(cuts) = 1
          THEN [ ok |-> TRUE, parent |-> <<SLASH>>, name |-> SubSeq(path, 2, Len(path)) ]
          ELSE [ ok |-> TRUE, parent |-> SubSeq(path, 1, Max(cuts) - 1),
                 name |-> SubSeq(path, Max(cuts) + 1, Len(path)) ]

\* a < b for byte strings (str::cmp).
RECURSIVE StrLess(_, _)
StrLess(a, b) ==
  IF b = <<>> THEN FALSE
  ELSE IF a = <<>> THEN TRUE
  ELSE IF Head(a) # Head(b) THEN Head(a) < Head(b)
  ELSE StrLess(Tail(a), Tail(b))

\* A comparator that puts the files first.
EntryLessFilesFirst(a, b) ==
  IF a.entry_type = "Directory" /\ b.entry_type = "File" THEN FALSE
  ELSE IF a.entry_type = "File" /\ b.entry_type = "Directory" THEN TRUE
  ELSE StrLess(a.name, b.name)

\* The comparator of list_dir says Less: directories first, then by name.
EntryLess(a, b) ==
  IF a.entry_type = "Directory" /\ b.entry_type = "File" THEN TRUE
  ELSE IF a.entry_type = "File" /\ b.entry_type = "Directory" THEN FALSE
  ELSE StrLess(a.name, b.name)

\* sort_by (stable): each entry goes behind the last one not greater than it.
RECURSIVE SortEntries(_)
SortEntries(entries) ==
  IF Len(entries) <= 1 THEN entries
  ELSE LET n == Len(entries)
           front == SortEntries(SubSeq(entries, 1, n - 1))
           e == entries[n]
           le == {i \in 1 .. n - 1 : ~EntryLess(e, front[i])}
           at == IF le = {} THEN 0 ELSE Max(le)
       IN SubSeq(front, 1, at) \o <<e>> \o SubSeq(front, at + 1, n - 1)

\* ------------------------------------------------------------ controller
(***************************************************************************)
(* A controller is the record of the FileSystem struct.  Every operation   *)
(* is an operator from the controller before to a result record with the   *)
(* controller after (`fs`, partial effects of a failed call included),     *)
(* `ok` (Ok or Err), `panic` (the call aborts the process: an unwrap on    *)
(* Err/None or an index out of range) and the returned value.  An          *)
(* operation is written as the sequence of its steps: each step takes the  *)
(* values the steps before it have computed and hands its own on.          *)
(***************************************************************************)
Ok(f, id) == [ ok |-> TRUE, panic |-> FALSE, fs |-> f, id |-> id ]

Err(f) == [ ok |-> FALSE, panic |-> FALSE, fs |-> f, id |-> 0 ]

Panic(f) == [ ok |-> FALSE, panic |-> TRUE, fs |-> f, id |-> 0 ]

\* The Err(String) of find_inode, with its message.
Failed(err) == [ ok |-> FALSE, id |-> 0, err |-> err ]

FileSystemNew(r, disk) ==
  LET sb == SuperBlockNew(4096)
  IN [ disk |-> disk,
       super_block |-> sb,
       inode_bitmap |-> InodeBitmapNew(sb.total_inodes, sb.inode_bitmap_start),
       data_bitmap |-> DataBlockBitmapNew(sb.total_blocks - sb.data_block_start,
                                          sb.block_bitmap_start),
       inode_table |-> IF r = "src"
                       THEN InodeTableNew(sb.inode_table_start, sb.total_inodes)
                       ELSE InodeTableNewSized(sb.inode_table_start, sb.total_inodes),
       data_area |-> DataAreaNew(sb.data_block_start,
                                 sb.total_blocks - sb.data_block_start) ]

\* The end of FileSystem::sync: the superblock is serialized (dirty still
\* as it was) and written, then dirty is cleared.
SyncSuperBlock(fs, r) ==
  Ok([fs EXCEPT !.disk = DiskWrite(r.disk, 0, [ kind |-> "sb", val |-> fs.super_block ]),
                !.data_area = r.da,
                !.super_block.dirty = FALSE], 0)

\* FileSystem::sync: the bitmaps, the table, the data area, then the
\* superblock.
Sync(fs) ==
  SyncSuperBlock(fs,
    DataAreaSync(fs.data_area,
      InodeTableSync(fs.inode_table,
        BitmapSync(fs.data_bitmap.bits, fs.data_bitmap.byte_len,
                   fs.data_bitmap.start_block, 0,
          BitmapSync(fs.inode_bitmap.bits, fs.inode_bitmap.byte_len,
                     fs.inode_bitmap.start_block, 0, fs.disk)))))

\* The device after the first k writes of sync have returned: the inode
\* bitmap, the data bitmap, the inode table.
SyncWritten(fs, k) ==
  IF k = 0 THEN fs.disk
  ELSE IF k = 1
  THEN BitmapSync(fs.inode_bitmap.bits, fs.inode_bitmap.byte_len,
                  fs.inode_bitmap.start_block, 0, fs.disk)
  ELSE IF k = 2
  THEN BitmapSync(fs.data_bitmap.bits, fs.data_bitmap.byte_len,
                  fs.data_bitmap.start_block, 0,
         BitmapSync(fs.inode_bitmap.bits, fs.inode_bitmap.byte_len,
                    fs.inode_bitmap.start_block, 0, fs.disk))
  ELSE InodeTableSync(fs.inode_table,
         BitmapSync(fs.data_bitmap.bits, fs.data_bitmap.byte_len,
                    fs.data_bitmap.start_block, 0,
           BitmapSync(fs.inode_bitmap.bits, fs.inode_bitmap.byte_len,
                      fs.inode_bitmap.start_block, 0, fs.disk)))

\* sync whose write of block 0 returns an error: the data area is written
\* and clean, the dirty flag is not cleared.
SyncFailedSuperBlock(fs, r) == Err([fs EXCEPT !.disk = r.disk, !.data_area = r.da])

\* A sync that writes block 0 first.
SyncFailedSuperBlockFirst(fs, k) ==
  IF k = 1 THEN Err(fs)
  ELSE Err([fs EXCEPT !.disk = DiskWrite(SyncWritten(fs, Min({k - 2, 3})), 0,
                                         [ kind |-> "sb", val |-> fs.super_block ])])

\* FileSystem::sync when the device returns an error to write k of its five
\* (the first write of the inode bitmap, of the data bitmap, of the table,
\* of the data area, or the write of block 0): `?` returns it at once.
SyncFailed(fs, k) ==
  IF k <= 4 THEN Err([fs EXCEPT !.disk = SyncWritten(fs, k - 1)])
  ELSE SyncFailedSuperBlock(fs, DataAreaSync(fs.data_area, SyncWritten(fs, 3)))

\* The end of FileSystem::unmount, after the sync of a dirty controller.
Unmounted(r) == Ok([r.fs EXCEPT !.super_block.mounted = FALSE], 0)

\* FileSystem::unmount
Unmount(fs) == Unmounted(IF fs.super_block.dirty THEN Sync(fs) ELSE Ok(fs, 0))

\* The end of FileSystem::mount: the table, then the data area.  The
\* components loaded before a failing load stay replaced.
MountTable(f1, t) ==
  IF ~t.ok THEN Err(f1)
  ELSE Ok([f1 EXCEPT !.inode_table = t.t,
                     !.data_area = DataAreaLoad(f1.data_area, f1.disk),
                     !.super_block.mounted = TRUE], 0)

\* FileSystem::mount from the superblock read on: the two bitmaps.
MountBitmaps(fs, sb) ==
  MountTable([fs EXCEPT !.super_block = sb,
                        !.inode_bitmap = InodeBitmapLoad(fs.disk, sb.inode_bitmap_start,
                                                         sb.total_inodes),
                        !.data_bitmap = DataBlockBitmapLoad(fs.disk, sb.block_bitmap_start,
                                          sb.total_blocks - sb.data_block_start)],
             InodeTableLoad(fs.disk, sb.inode_table_start))

\* FileSystem::mount.  Block 0 of an image never written is all zero and
\* decodes to the zero superblock.
Mount(fs) ==
  MountBitmaps(fs, IF 0 \in DOMAIN fs.disk.blocks THEN fs.disk.blocks[0].val
                   ELSE ZeroSuperBlock)

\* Directory::new followed by the adds of "." and "..", as format and
\* create_dir build a directory.
NewDirectory(inode_index) ==
  DirectoryAdd(DirectoryAdd(DirectoryNew(inode_index), inode_index, <<DOT>>,
                            "Directory").dir,
               inode_index, <<DOT, DOT>>, "Directory").dir

\* format, the end: the root directory block is written, the size of the
\* root inode set, and everything synced.
FormatWritten(f3, size, w) ==
  IF ~w.ok THEN Err(f3)
  ELSE Sync([f3 EXCEPT !.data_area = w.da,
                       !.inode_table = SetInode(@, 0,
                                         [GetInode(@, 0)[1] EXCEPT !.size = size])])

\* format: the serialized root directory goes to the root block.
FormatRootDir(f3, root_block, dir_bytes) ==
  FormatWritten(f3, Len(dir_bytes), DataAreaWriteBlock(f3.data_area, root_block, dir_bytes))

\* format: the root inode is stored at index 0 of the table's vector,
\* which aborts when the vector is empty.
FormatRootInode(f2, root_block) ==
  IF 0 >= f2.inode_table.len THEN Panic(f2)
  ELSE FormatRootDir([f2 EXCEPT !.inode_table =
                        SetInode(@, 0, [InodeNew("Directory", 0, 0, 493) EXCEPT
                                          !.link_count = 2,
                                          !.direct_blocks = [ZeroPtrs EXCEPT ![1] = root_block]])],
                     root_block, EncodeDirectory(NewDirectory(0)))

\* format: the root block id is the allocated bit plus
\* data_area.start_block, and is used as a slot of the data area.
FormatRootBlock(f1, d) ==
  IF ~IsSome(d.idx) THEN Err(f1)
  ELSE FormatRootInode([f1 EXCEPT !.data_bitmap = d.bm, !.super_block.free_blocks = @ - 1],
                       d.idx[1] + f1.data_area.start_block)

\* format: inode bit 0 is reserved for the root.
FormatRootBit(f0, a) ==
  IF ~a.ok THEN Err(f0)
  ELSE FormatRootBlock([f0 EXCEPT !.inode_bitmap = a.bm, !.super_block.free_inode = @ - 1],
                       DataBlockBitmapAlloc(f0.data_bitmap))

\* format: every component is constructed anew.
FormatFresh(f0) == FormatRootBit(f0, InodeBitmapAllocSpecific(f0.inode_bitmap, 0))

\* FileSystem::format.  alloc_specific is not in src/ (specification 4.2).
Format(r, fs) ==
  FormatFresh([FileSystemNew(r, fs.disk) EXCEPT
                 !.super_block = [SuperBlockNew(4096) EXCEPT !.mounted = TRUE,
                                                             !.dirty = TRUE]])

\* find_inode, from the component list on: each component is looked up in
\* the directory block of the current inode; the inode the last component
\* names is not looked at.
RECURSIVE Resolve(_, _, _)
\* The lookup of the first component in the directory read.
ResolveIn(fs, components, directory) ==
  IF ~directory.ok THEN Failed("Failed to deserialize directory")
  ELSE IF ~IsSome(DirectoryFind(directory.dir, Head(components)))
       THEN Failed("Path component not found")
  ELSE Resolve(fs, Tail(components), DirectoryFind(directory.dir, Head(components))[1])

Resolve(fs, components, current_inode) ==
  LET inode == GetInode(fs.inode_table, current_inode)
      block_id == inode[1].direct_blocks[1]
      block_data == DataAreaReadBlock(fs.data_area, block_id)
  IN IF components = <<>> THEN [ ok |-> TRUE, id |-> current_inode ]
     ELSE IF ~IsSome(inode) THEN Failed("Inode not found")
     ELSE IF inode[1].inode_type # "Directory"
          THEN Failed("Path component is not a directory")
     ELSE IF block_id = 0 THEN Failed("Directory has no data block")
     ELSE IF ~IsSome(block_data) THEN Failed("Failed to read directory block")
     ELSE ResolveIn(fs, components, DirectoryLoadFromBytes(block_data[1]))

\* FileSystem::find_inode
FindInode(fs, path) ==
  IF path = <<SLASH>> THEN [ ok |-> TRUE, id |-> 0 ]
  ELSE IF Trim(TrimStartSlash(path)) = <<>> THEN [ ok |-> TRUE, id |-> 0 ]
  ELSE Resolve(fs, Components(Trim(TrimStartSlash(path))), 0)

\* The end of add_directory_entry and of remove_directory_entry: the block
\* is written back and the size of the parent inode set.
EntryWritten(fs, pid, size, w, on_error) ==
  IF ~w.ok THEN on_error
  ELSE Ok([fs EXCEPT !.data_area = w.da,
                     !.inode_table = SetInode(@, pid,
                                       [GetInode(@, pid)[1] EXCEPT !.size = size])], 0)

\* The directory changed by add or remove is serialized and written.
EntryStore(fs, pid, block_id, dir_bytes, on_error) ==
  EntryWritten(fs, pid, Len(dir_bytes),
               DataAreaWriteBlock(fs.data_area, block_id, dir_bytes), on_error)

\* add_directory_entry from Directory::add on.
AddEntryAdded(fs, pid, block_id, added) ==
  IF ~added.ok THEN Err(fs)
  ELSE EntryStore(fs, pid, block_id, EncodeDirectory(added.dir), Panic(fs))

\* add_directory_entry from the decoded parent directory on.  It comes
\* from bincode::deserialize, so its index_map is empty when add runs.
AddEntryTo(fs, name, inode_id, entry_type, pid, block_id, parent_dir) ==
  IF ~parent_dir.ok THEN Err(fs)
  ELSE AddEntryAdded(fs, pid, block_id,
                     DirectoryAdd(parent_dir.dir, inode_id, name, entry_type))

\* add_directory_entry from the parent inode id on.
AddEntryAt(fs, name, inode_id, entry_type, p) ==
  LET parent_inode == GetInode(fs.inode_table, p.id)
      block_id == parent_inode[1].direct_blocks[1]
      block_data == DataAreaReadBlock(fs.data_area, block_id)
  IN IF ~p.ok THEN Err(fs)
     ELSE IF ~IsSome(parent_inode) THEN Err(fs)
     ELSE IF block_id = 0 THEN Err(fs)
     ELSE IF ~IsSome(block_data) THEN Err(fs)
     ELSE AddEntryTo(fs, name, inode_id, entry_type, p.id, block_id,
                     DecodeDirectory(block_data[1]))

\* FileSystem::add_directory_entry
AddDirectoryEntry(fs, parent_path, name, inode_id, entry_type) ==
  AddEntryAt(fs, name, inode_id, entry_type, FindInode(fs, parent_path))

\* remove_directory_entry from Directory::remove on.
RemoveEntryRemoved(fs, pid, block_id, removed) ==
  IF ~removed.ok THEN Err(fs)
  ELSE EntryStore(fs, pid, block_id, EncodeDirectory(removed.dir), Err(fs))

\* remove_directory_entry from the loaded parent directory on.
RemoveEntryFrom(fs, name, pid, block_id, parent_dir) ==
  IF ~parent_dir.ok THEN Err(fs)
  ELSE RemoveEntryRemoved(fs, pid, block_id, DirectoryRemove(parent_dir.dir, name))

\* remove_directory_entry from the parent inode id on.
RemoveEntryAt(fs, name, p) ==
  LET parent_inode == GetInode(fs.inode_table, p.id)
      block_id == parent_inode[1].direct_blocks[1]
      block_data == DataAreaReadBlock(fs.data_area, block_id)
  IN IF ~p.ok THEN Err(fs)
     ELSE IF ~IsSome(parent_inode) THEN Err(fs)
     ELSE IF block_id = 0 THEN Err(fs)
     ELSE IF ~IsSome(block_data) THEN Err(fs)
     ELSE RemoveEntryFrom(fs, name, p.id, block_id, DirectoryLoadFromBytes(block_data[1]))

\* FileSystem::remove_directory_entry
RemoveDirectoryEntry(fs, parent_path, name) ==
  RemoveEntryAt(fs, name, FindInode(fs, parent_path))

\* create_dir, the end: the counters, after the entry is in the parent.
CreateDirDone(inode_id, e) ==
  IF ~e.ok THEN e
  ELSE Ok([e.fs EXCEPT !.super_block.free_inode = @ - 1, !.super_block.dirty = TRUE],
          inode_id)

\* create_dir: the block is written and attached to the new inode (both
\* unwrapped), then the parent directory is updated.
CreateDirAttach(f2, parent_path, name, inode_id, size, w, ab) ==
  IF ~w.ok \/ ~ab.ok THEN Panic(f2)
  ELSE CreateDirDone(inode_id,
         AddDirectoryEntry([f2 EXCEPT !.data_area = w.da,
                                      !.inode_table = SetInode(@, inode_id,
                                                        [ab.inode EXCEPT !.size = size])],
                           parent_path, name, inode_id, "Directory"))

\* create_dir: the serialized new directory and its block.
CreateDirStore(f2, parent_path, name, inode_id, block_id, dir_bytes) ==
  CreateDirAttach(f2, parent_path, name, inode_id, Len(dir_bytes),
                  DataAreaWriteBlock(f2.data_area, block_id, dir_bytes),
                  AddBlock(GetInode(f2.inode_table, inode_id)[1], block_id))

\* create_dir: the data block is allocated.
CreateDirBlock(f1, parent_path, name, inode_id, d) ==
  IF ~IsSome(d.idx) THEN Err(f1)
  ELSE CreateDirStore([f1 EXCEPT !.data_bitmap = d.bm, !.super_block.free_blocks = @ - 1],
                      parent_path, name, inode_id, d.idx[1],
                      EncodeDirectory(NewDirectory(inode_id)))

\* create_dir: the inode is allocated.
CreateDirInode(fs, parent_path, name, a) ==
  IF a.panic THEN Panic([fs EXCEPT !.inode_table = a.t, !.inode_bitmap = a.bm])
  ELSE IF ~IsSome(a.idx) THEN Err([fs EXCEPT !.inode_table = a.t, !.inode_bitmap = a.bm])
  ELSE CreateDirBlock([fs EXCEPT !.inode_table = a.t, !.inode_bitmap = a.bm],
                      parent_path, name, a.idx[1], DataBlockBitmapAlloc(fs.data_bitmap))

\* create_dir: the parent is resolved and its inode looked up.
CreateDirAt(r, fs, parent_path, name, p) ==
  IF ~p.ok THEN Err(fs)
  ELSE IF ~IsSome(GetInode(fs.inode_table, p.id)) THEN Err(fs)
  ELSE CreateDirInode(fs, parent_path, name,
                      AllocInode(r, fs.inode_table, fs.inode_bitmap, "Directory", 0, 0, 493))

\* FileSystem::create_dir
CreateDir(r, fs, parent_path, name) ==
  CreateDirAt(r, fs, parent_path, name, FindInode(fs, parent_path))

\* create_file, the end: the parent is resolved again, then the counters.
CreateFileDone(parent_path, inode_id, e) ==
  IF ~e.ok THEN e
  ELSE IF ~FindInode(e.fs, parent_path).ok THEN Err(e.fs)
  ELSE Ok([e.fs EXCEPT !.super_block.free_inode = @ - 1, !.super_block.dirty = TRUE],
          inode_id)

\* create_file: the inode is allocated and initialised, the entry added.
CreateFileInode(fs, parent_path, name, a) ==
  IF a.panic THEN Panic([fs EXCEPT !.inode_table = a.t, !.inode_bitmap = a.bm])
  ELSE IF ~IsSome(a.idx) THEN Err([fs EXCEPT !.inode_table = a.t, !.inode_bitmap = a.bm])
  ELSE CreateFileDone(parent_path, a.idx[1],
         AddDirectoryEntry(
           [fs EXCEPT !.inode_bitmap = a.bm,
                      !.inode_table =
                        IF IsSome(GetInode(a.t, a.idx[1]))
                        THEN SetInode(a.t, a.idx[1],
                                      [GetInode(a.t, a.idx[1])[1] EXCEPT !.size = 0])
                        ELSE a.t],
           parent_path, name, a.idx[1], "File"))

\* FileSystem::create_file
CreateFile(r, fs, parent_path, name) ==
  IF FindInode(fs, Join(parent_path, name)).ok THEN Err(fs)
  ELSE CreateFileInode(fs, parent_path, name,
                       AllocInode(r, fs.inode_table, fs.inode_bitmap, "File", 0, 0, 420))

\* The direct pointers that are not 0, in order.
RECURSIVE NonZero(_)
NonZero(ids) ==
  IF ids = <<>> THEN <<>>
  ELSE IF Head(ids) = 0 THEN NonZero(Tail(ids))
  ELSE <<Head(ids)>> \o NonZero(Tail(ids))

\* data_bitmap.free of every block id of a list, in order.
RECURSIVE FreeBlocks(_, _)
FreeBlocks(bm, ids) ==
  IF ids = <<>> THEN [ bm |-> bm, panic |-> FALSE ]
  ELSE IF DataBlockBitmapFree(bm, Head(ids)).panic THEN DataBlockBitmapFree(bm, Head(ids))
  ELSE FreeBlocks(DataBlockBitmapFree(bm, Head(ids)).bm, Tail(ids))

\* Inode::block_count, which is also what free_file_blocks counts as freed.
BlockCount(inode) ==
  Cardinality({i \in 1 .. DIRECT_PTRS : inode.direct_blocks[i] # 0})
  + (IF IsSome(inode.indirect_block) THEN 1 ELSE 0)
  + (IF IsSome(inode.double_indirect_block) THEN 1 ELSE 0)

\* free_file_blocks that does not give the freed blocks back to the counter.
FileBlocksFreedUncounted(fs, inode_id, inode, r) ==
  IF r.panic THEN Panic(fs)
  ELSE Ok([fs EXCEPT
             !.data_bitmap = r.bm,
             !.inode_table = SetInode(@, inode_id,
                               [inode EXCEPT !.direct_blocks = ZeroPtrs,
                                             !.indirect_block = None,
                                             !.double_indirect_block = None,
                                             !.size = 0]),
             !.super_block.dirty = TRUE], 0)

\* free_file_blocks, the end: the pointers are cleared; `freed` counts the
\* pointers, whether or not their bit was set.
FileBlocksFreed(fs, inode_id, inode, r) ==
  IF r.panic THEN Panic(fs)
  ELSE Ok([fs EXCEPT
             !.data_bitmap = r.bm,
             !.inode_table = SetInode(@, inode_id,
                               [inode EXCEPT !.direct_blocks = ZeroPtrs,
                                             !.indirect_block = None,
                                             !.double_indirect_block = None,
                                             !.size = 0]),
             !.super_block.free_blocks = @ + BlockCount(inode),
             !.super_block.dirty = TRUE], 0)

\* free_file_blocks from the inode on.
FreeFileBlocksOf(fs, inode_id, inode) ==
  IF ~IsSome(inode) THEN Err(fs)
  ELSE FileBlocksFreed(fs, inode_id, inode[1],
         FreeBlocks(fs.data_bitmap,
                    NonZero(inode[1].direct_blocks) \o inode[1].indirect_block
                    \o inode[1].double_indirect_block))

\* FileSystem::free_file_blocks
FreeFileBlocks(fs, inode_id) ==
  FreeFileBlocksOf(fs, inode_id, GetInode(fs.inode_table, inode_id))

\* FileSystem::truncate_file
TruncateFile(fs, inode_id) == FreeFileBlocks(fs, inode_id)

\* write_file that writes through to the device.
WriteFileAttachSynced(f1, content, inode_id, block_id, w) ==
  IF ~w.ok THEN Err(f1)
  ELSE Sync([f1 EXCEPT !.data_area = w.da,
                       !.inode_table =
                         IF IsSome(GetInode(@, inode_id))
                         THEN SetInode(@, inode_id,
                                       [AddBlock(GetInode(@, inode_id)[1], block_id).inode
                                          EXCEPT !.size = Len(content)])
                         ELSE @,
                       !.super_block.free_blocks = @ - 1,
                       !.super_block.dirty = TRUE])

\* write_file, the end: the block is attached to the inode, if there is
\* one, and the counters updated.
WriteFileAttach(f1, content, inode_id, block_id, w) ==
  LET inode == GetInode(f1.inode_table, inode_id)
      ab == AddBlock(inode[1], block_id)
  IN IF ~w.ok THEN Err(f1)
     ELSE IF ~IsSome(inode)
          THEN Ok([f1 EXCEPT !.data_area = w.da,
                             !.super_block.free_blocks = @ - 1,
                             !.super_block.dirty = TRUE], 0)
     ELSE IF ~ab.ok THEN Err([f1 EXCEPT !.data_area = w.da])
     ELSE Ok([f1 EXCEPT !.data_area = w.da,
                        !.inode_table = SetInode(@, inode_id,
                                          [ab.inode EXCEPT !.size = Len(content)]),
                        !.super_block.free_blocks = @ - 1,
                        !.super_block.dirty = TRUE], 0)

\* write_file: a block is allocated and the content written to it.
WriteFileBlock(f0, content, inode_id, d) ==
  IF ~IsSome(d.idx) THEN Err([f0 EXCEPT !.data_bitmap = d.bm])
  ELSE WriteFileAttach([f0 EXCEPT !.data_bitmap = d.bm], content, inode_id, d.idx[1],
                       DataAreaWriteBlock(f0.data_area, d.idx[1], content))

\* write_file after the old blocks are freed.
WriteFileFreed(content, inode_id, f) ==
  IF ~f.ok THEN f
  ELSE IF content = <<>> THEN Ok([f.fs EXCEPT !.super_block.dirty = TRUE], 0)
  ELSE WriteFileBlock(f.fs, content, inode_id, DataBlockBitmapAlloc(f.fs.data_bitmap))

\* write_file from the inode id on.
WriteFileAt(fs, content, p) ==
  IF ~p.ok THEN Err(fs) ELSE WriteFileFreed(content, p.id, FreeFileBlocks(fs, p.id))

\* FileSystem::write_file
WriteFile(fs, path, content) == WriteFileAt(fs, content, FindInode(fs, path))

\* The inode id create_or_write_file returns after its write_file.
Written(w, inode_id) == IF w.ok THEN [w EXCEPT !.id = inode_id] ELSE w

\* create_or_write_file, the Err arm: create_file, then write_file.
CreateOrWriteFileCreated(full_path, content, c) ==
  IF ~c.ok THEN c ELSE Written(WriteFile(c.fs, full_path, content), c.id)

\* create_or_write_file after find_inode.
CreateOrWriteFileFound(r, fs, parent_path, name, content, found) ==
  IF found.ok THEN Written(WriteFile(fs, Join(parent_path, name), content), found.id)
  ELSE CreateOrWriteFileCreated(Join(parent_path, name), content,
                                CreateFile(r, fs, parent_path, name))

\* FileSystem::create_or_write_file
CreateOrWriteFile(r, fs, parent_path, name, content) ==
  CreateOrWriteFileFound(r, fs, parent_path, name, content,
                         FindInode(fs, Join(parent_path, name)))

\* The loop of list_dir over the direct pointers, up to the first 0.
RECURSIVE CollectEntries(_, _, _)
\* One block of the loop, decoded.
CollectDecoded(fs, ids, acc, dir) ==
  IF ~dir.ok THEN [ ok |-> FALSE, entries |-> <<>> ]
  ELSE CollectEntries(fs, Tail(ids), acc \o dir.dir.entries)

CollectEntries(fs, ids, acc) ==
  IF ids = <<>> \/ Head(ids) = 0 THEN [ ok |-> TRUE, entries |-> acc ]
  ELSE IF ~IsSome(DataAreaReadBlock(fs.data_area, Head(ids)))
       THEN CollectEntries(fs, Tail(ids), acc)
  ELSE CollectDecoded(fs, ids, acc,
         DecodeDirectory(DataAreaReadBlock(fs.data_area, Head(ids))[1]))

\* list_dir, the end: the collected entries are sorted.
ListDirSorted(c) ==
  IF ~c.ok THEN [ ok |-> FALSE, panic |-> FALSE, entries |-> <<>> ]
  ELSE [ ok |-> TRUE, panic |-> FALSE, entries |-> SortEntries(c.entries) ]

\* list_dir from the inode id on.
ListDirAt(fs, p) ==
  LET inode == GetInode(fs.inode_table, p.id)
  IN IF ~p.ok THEN [ ok |-> FALSE, panic |-> FALSE, entries |-> <<>> ]
     ELSE IF ~IsSome(inode) THEN [ ok |-> FALSE, panic |-> FALSE, entries |-> <<>> ]
     ELSE IF inode[1].inode_type # "Directory"
          THEN [ ok |-> FALSE, panic |-> FALSE, entries |-> <<>> ]
     ELSE ListDirSorted(CollectEntries(fs, inode[1].direct_blocks, <<>>))

\* FileSystem::list_dir
ListDir(fs, path) == ListDirAt(fs, FindInode(fs, path))

\* delete_file and delete_dir, the end: the counters, after the entry is
\* out of the parent.
Deleted(e) ==
  IF ~e.ok THEN e
  ELSE Ok([e.fs EXCEPT !.super_block.free_inode = @ + 1, !.super_block.dirty = TRUE], 0)

\* delete_file and delete_dir: the inode's bit is cleared after its
\* blocks' bits, then the entry is looked for; the inode record is left as
\* it is.
Released(fs, path, name, inode_id, r) ==
  IF r.panic THEN Panic(fs)
  ELSE Deleted(RemoveDirectoryEntry([fs EXCEPT !.data_bitmap = r.bm,
                                               !.inode_bitmap = InodeBitmapFree(@, inode_id)],
                                    path, name))

\* delete_file from the inode id on.
DeleteFileAt(fs, path, name, p) ==
  IF ~p.ok THEN Err(fs)
  ELSE IF ~IsSome(GetInode(fs.inode_table, p.id)) THEN Err(fs)
  ELSE Released(fs, path, name, p.id,
         FreeBlocks(fs.data_bitmap,
                    NonZero(GetInode(fs.inode_table, p.id)[1].direct_blocks)))

\* FileSystem::delete_file
DeleteFile(fs, path, name) == DeleteFileAt(fs, path, name, FindInode(fs, Join(path, name)))

\* delete_dir from the inode id and the listing on.
DeleteDirAt(fs, path, name, p, l) ==
  IF ~p.ok THEN Err(fs)
  ELSE IF ~l.ok THEN Err(fs)
  ELSE IF Len(l.entries) > 2 THEN Err(fs)
  ELSE IF ~IsSome(GetInode(fs.inode_table, p.id)) THEN Err(fs)
  ELSE Released(fs, path, name, p.id,
         FreeBlocks(fs.data_bitmap,
                    NonZero(<<GetInode(fs.inode_table, p.id)[1].direct_blocks[1]>>)))

\* FileSystem::delete_dir
DeleteDir(fs, path, name) ==
  DeleteDirAt(fs, path, name, FindInode(fs, Join(path, name)), ListDir(fs, Join(path, name)))

\* read_file from the inode id on: the first inode.size bytes of the first
\* block; slicing a block beyond its BLOCK_SIZE bytes aborts.
ReadFileAt(fs, p) ==
  LET inode == GetInode(fs.inode_table, p.id)
      block_id == inode[1].direct_blocks[1]
      data == DataAreaReadBlock(fs.data_area, block_id)
  IN IF ~p.ok THEN [ ok |-> FALSE, panic |-> FALSE, data |-> <<>> ]
     ELSE IF ~IsSome(inode) THEN [ ok |-> FALSE, panic |-> FALSE, data |-> <<>> ]
     ELSE IF block_id # 0 /\ IsSome(data)
          THEN IF inode[1].size > BLOCK_SIZE
               THEN [ ok |-> FALSE, panic |-> TRUE, data |-> <<>> ]
               ELSE [ ok |-> TRUE, panic |-> FALSE, data |-> Prefix(data[1], inode[1].size) ]
          ELSE [ ok |-> TRUE, panic |-> FALSE, data |-> <<>> ]

\* FileSystem::read_file
ReadFile(fs, path, name) == ReadFileAt(fs, FindInode(fs, Join(path, name)))

\* stat from the inode id on.
StatAt(fs, p) ==
  IF ~p.ok THEN [ ok |-> FALSE, panic |-> FALSE, inode |-> InodeEmpty ]
  ELSE IF ~IsSome(GetInode(fs.inode_table, p.id))
       THEN [ ok |-> FALSE, panic |-> FALSE, inode |-> InodeEmpty ]
  ELSE [ ok |-> TRUE, panic |-> FALSE, inode |-> GetInode(fs.inode_table, p.id)[1] ]

\* FileSystem::stat
Stat(fs, path, name) == StatAt(fs, FindInode(fs, Join(path, name)))

\* create_file_from_path after split_path.
CreateFileSplit(r, fs, sp) ==
  IF ~sp.ok THEN Err(fs) ELSE CreateFile(r, fs, sp.parent, sp.name)

\* FileSystem::create_file_from_path
CreateFileFromPath(r, fs, path) == CreateFileSplit(r, fs, SplitPath(path))

\* FileSystem::check_open_permissions: 0o400 is the owner's read bit, 0o200
\* the owner's write bit.
CheckOpenPermissions(inode, flags) ==
  IF "READ" \in flags /\ (inode.permissions \div 256) % 2 = 0 THEN FALSE
  ELSE IF "WRITE" \in flags /\ (inode.permissions \div 128) % 2 = 0 THEN FALSE
  ELSE TRUE

\* The failed open.
OpenErr(res) ==
  [ ok |-> FALSE, panic |-> res.panic, fs |-> res.fs, id |-> 0, handle |-> None ]

\* open whose handle always starts at offset 0.
OpenInodeAtStart(flags, inode_id, got) ==
  LET inode == GetInode(got.fs.inode_table, inode_id)
  IN IF ~got.ok THEN OpenErr(got)
     ELSE IF ~IsSome(inode) THEN OpenErr(Err(got.fs))
     ELSE IF inode[1].inode_type # "File" THEN OpenErr(Err(got.fs))
     ELSE IF ~CheckOpenPermissions(inode[1], flags) THEN OpenErr(Err(got.fs))
     ELSE [ ok |-> TRUE, panic |-> FALSE, fs |-> got.fs, id |-> inode_id,
            handle |-> Some([ inode_id |-> inode_id, offset |-> 0,
                              flags |-> flags ]) ]

\* open, the end: the inode found or created is checked and the handle
\* made.
OpenInode(flags, inode_id, got) ==
  LET inode == GetInode(got.fs.inode_table, inode_id)
  IN IF ~got.ok THEN OpenErr(got)
     ELSE IF ~IsSome(inode) THEN OpenErr(Err(got.fs))
     ELSE IF inode[1].inode_type # "File" THEN OpenErr(Err(got.fs))
     ELSE IF ~CheckOpenPermissions(inode[1], flags) THEN OpenErr(Err(got.fs))
     ELSE [ ok |-> TRUE, panic |-> FALSE, fs |-> got.fs, id |-> inode_id,
            handle |-> Some([ inode_id |-> inode_id,
                              offset |-> IF "APPEND" \in flags THEN inode[1].size ELSE 0,
                              flags |-> flags ]) ]

\* open, the path does not resolve and CREATE is set.
OpenCreated(flags, c) == OpenInode(flags, c.id, c)

\* open after find_inode.  An existing path is truncated before its type
\* is looked at.
OpenFound(r, fs, path, flags, p) ==
  IF p.ok
  THEN OpenInode(flags, p.id,
                 IF "TRUNC" \in flags /\ "WRITE" \in flags THEN TruncateFile(fs, p.id)
                 ELSE Ok(fs, 0))
  ELSE IF "CREATE" \in flags THEN OpenCreated(flags, CreateFileFromPath(r, fs, path))
  ELSE OpenErr(Err(fs))

\* FileSystem::open; flags is the set of the OpenFlags that are set.
Open(r, fs, path, flags) == OpenFound(r, fs, path, flags, FindInode(fs, path))

\* -------------------------------------------------------- state machine
(***************************************************************************)
(* fs        the controller (the FileSystem struct, its image file in      *)
(*           fs.disk);                                                     *)
(* rev       which inode table the build has: "src" is src/ as it is       *)
(*           (InodeTable::new makes an empty vector), "spec" the table of  *)
(*           specification 4.3 (N_I sentinel slots);                       *)
(* aborted   the process has panicked;                                     *)
(* formatted a format has succeeded on this image;                         *)
(* steps     operations called so far;                                     *)
(* last      the last operation: its name, whether it returned Ok, and     *)
(*           its arguments;                                                *)
(* before    the controller as the last operation found it.                *)
(***************************************************************************)
VARIABLES fs, rev, aborted, formatted, steps, last, before

vars == <<fs, rev, aborted, formatted, steps, last, before>>

NamePool == << <<97>>, <<DOT>>, <<DOT, DOT>> >>

Names == {NamePool[i] : i \in 1 .. Min({MaxName, Len(NamePool)})}

\* "hi", the empty content, and 80 bytes "x": a block that long, written
\* into the inode table image, reaches the Option tags of a sentinel record.
ContentPool == << <<104, 105>>, <<>>, [i \in 1 .. 80 |-> 120], <<120>> >>

Contents == {ContentPool[i] : i \in 1 .. Min({MaxContent, Len(ContentPool)})}

Parents == { <<SLASH>>, <<SLASH, 97>> }

\* write_file takes one path: with the empty name it is given "//" and
\* "/a/", which name the root and "/a".
PathNames == Names \cup { <<>> }

FlagSets ==
  { {"READ"}, {"WRITE", "TRUNC"}, {"WRITE", "CREATE"}, {"WRITE", "APPEND"},
    {"WRITE", "TRUNC", "APPEND"} }

Call(op, ok, parent, name, content) ==
  [ op |-> op, ok |-> ok, parent |-> parent, name |-> name, content |-> content,
    flags |-> {} ]

\* What every call does to the state around the controller.
Called(op, res, parent, name, content) ==
  /\ aborted' = res.panic
  /\ steps' = steps + 1
  /\ last' = Call(op, res.ok /\ ~res.panic, parent, name, content)
  /\ before' = fs
  /\ UNCHANGED rev

\* A call of a &mut self operation: the controller is the one the call
\* leaves, or is gone with the process.
Step(op, res, parent, name, content) ==
  /\ fs' = IF res.panic THEN fs ELSE res.fs
  /\ Called(op, res, parent, name, content)
  /\ UNCHANGED formatted

\* A call of a &self operation.
Observed(op, res, parent, name) ==
  /\ Called(op, res, parent, name, <<>>)
  /\ UNCHANGED <<fs, formatted>>

\* The call of open, which has flags for arguments.
Opened(res, parent, name, flags) ==
  /\ fs' = IF res.panic THEN fs ELSE res.fs
  /\ aborted' = res.panic
  /\ steps' = steps + 1
  /\ last' = [Call("open", res.ok /\ ~res.panic, parent, name, <<>>) EXCEPT !.flags = flags]
  /\ before' = fs
  /\ UNCHANGED <<rev, formatted>>

\* The call of format.
Formatted(res) ==
  /\ fs' = IF res.panic THEN fs ELSE res.fs
  /\ formatted' = (formatted \/ (res.ok /\ ~res.panic))
  /\ Called("format", res, <<>>, <<>>, <<>>)

Ready == ~aborted /\ steps < MaxSteps

Init ==
  /\ rev \in {"src", "spec"}
  /\ fs = FileSystemNew(rev, BlankDisk)
  /\ aborted = FALSE
  /\ formatted = FALSE
  /\ steps = 0
  /\ last = Call("new", TRUE, <<>>, <<>>, <<>>)
  /\ before = fs

DoFormat == Ready /\ Formatted(Format(rev, fs))

DoMount == Ready /\ Step("mount", Mount(fs), <<>>, <<>>, <<>>)

\* A new process over the same image: FileSystem::new, then mount.
DoReopen ==
  /\ steps < MaxSteps
  /\ Step("reopen", Mount(FileSystemNew(rev, fs.disk)), <<>>, <<>>, <<>>)

DoSync == Ready /\ Step("sync", Sync(fs), <<>>, <<>>, <<>>)

\* A sync during which the device fails.
DoSyncFailed(k) == Ready /\ Step("sync", SyncFailed(fs, k), <<>>, <<>>, <<>>)

DoUnmount == Ready /\ Step("unmount", Unmount(fs), <<>>, <<>>, <<>>)

DoCreateDir(parent, name) ==
  Ready /\ Step("create_dir", CreateDir(rev, fs, parent, name), parent, name, <<>>)

DoCreateFile(parent, name) ==
  Ready /\ Step("create_file", CreateFile(rev, fs, parent, name), parent, name, <<>>)

DoWriteFile(parent, name, content) ==
  Ready /\ Step("write_file", WriteFile(fs, Join(parent, name), content),
                parent, name, content)

DoCreateOrWriteFile(parent, name, content) ==
  Ready /\ Step("create_or_write_file", CreateOrWriteFile(rev, fs, parent, name, content),
                parent, name, content)

DoDeleteFile(parent, name) ==
  Ready /\ Step("delete_file", DeleteFile(fs, parent, name), parent, name, <<>>)

DoDeleteDir(parent, name) ==
  Ready /\ Step("delete_dir", DeleteDir(fs, parent, name), parent, name, <<>>)

DoOpen(parent, name, flags) ==
  Ready /\ Opened(Open(rev, fs, Join(parent, name), flags), parent, name, flags)

DoListDir(parent) == Ready /\ Observed("list_dir", ListDir(fs, parent), parent, <<>>)

DoReadFile(parent, name) ==
  Ready /\ Observed("read_file", ReadFile(fs, parent, name), parent, name)

DoStat(parent, name) == Ready /\ Observed("stat", Stat(fs, parent, name), parent, name)

Next ==
  \/ DoFormat
  \/ DoMount
  \/ DoReopen
  \/ DoSync
  \/ DoUnmount
  \/ \E parent \in Parents, name \in Names : DoCreateDir(parent, name)
  \/ \E parent \in Parents, name \in Names : DoCreateFile(parent, name)
  \/ \E parent \in Parents, name \in PathNames, content \in Contents :
       DoWriteFile(parent, name, content)
  \/ \E parent \in Parents, name \in Names, content \in Contents :
       DoCreateOrWriteFile(parent, name, content)
  \/ \E parent \in Parents, name \in Names : DoDeleteFile(parent, name)
  \/ \E parent \in Parents, name \in Names : DoDeleteDir(parent, name)
  \/ \E parent \in Parents, name \in Names, flags \in FlagSets : DoOpen(parent, name, flags)
  \/ \E parent \in Parents : DoListDir(parent)
  \/ \E parent \in Parents, name \in Names : DoReadFile(parent, name)
  \/ \E parent \in Parents, name \in Names : DoStat(parent, name)

Spec == Init /\ [][Next]_vars

\* ------------------------------------------------- the parts on their own
(***************************************************************************)
(* The bitmaps, the inode table and the data area are public structures    *)
(* with public methods.  Here they are built by their constructors for a   *)
(* small total and called directly; fs holds the four of them.  The        *)
(* bitmaps start with the first k bits set, as k calls of alloc leave      *)
(* them.  A free count of -1 stands for the u64 that 0 - 1 wraps to in a   *)
(* build without overflow checks (2^64 - 1); a build with overflow checks  *)
(* aborts at that subtraction.                                             *)
(***************************************************************************)
PartTotals == {3, 8}

PartFill(total) == {0, total - 1, total}

\* The indices a caller passes: the first, the last, total, total + 1, and
\* the first bit behind the last byte.
PartIndices(total) == {0, total - 1, total, total + 1, ((total + 7) \div 8) * 8}

PartBuffers == << <<104, 105>>, [i \in 1 .. BLOCK_SIZE + 1 |-> 120] >>

Parts(r, total, k) ==
  [ inode_bitmap |-> [InodeBitmapNew(total, 1) EXCEPT !.bits = 0 .. k - 1,
                                                       !.free_inodes = total - k],
    data_bitmap |-> [DataBlockBitmapNew(total, 2) EXCEPT !.bits = 0 .. k - 1,
                                                          !.free_blocks = total - k],
    inode_table |-> IF r = "src" THEN InodeTableNew(3, total)
                    ELSE InodeTableNewSized(3, total),
    data_area |-> DataAreaNew(131, total),
    disk |-> BlankDisk ]

\* The image file the data area is written back to: a new one, or one that
\* an earlier run left with bytes in block 131 (DataArea::new does not read it).
PartDisks == {BlankDisk, DiskWrite(BlankDisk, 131, [ kind |-> "data", val |-> <<111>> ])}

InitParts ==
  /\ rev \in {"src", "spec"}
  /\ \E total \in PartTotals : \E k \in PartFill(total) : \E d \in PartDisks :
       fs = [Parts(rev, total, k) EXCEPT !.disk = d]
  /\ aborted = FALSE
  /\ formatted = FALSE
  /\ steps = 0
  /\ last = Call("new", TRUE, <<>>, <<>>, <<>>)
  /\ before = fs

\* A call of a method of a part: args are its arguments.
PartCalled(op, ok, panic, parts, args) ==
  /\ fs' = IF panic THEN fs ELSE parts
  /\ aborted' = panic
  /\ steps' = steps + 1
  /\ last' = Call(op, ok /\ ~panic, <<>>, <<>>, args)
  /\ before' = fs
  /\ UNCHANGED <<rev, formatted>>

PartReady == ~aborted /\ steps < MaxPartSteps

\* checked: the build has overflow checks.
DoInodeBitmapAlloc(checked) ==
  /\ PartReady
  /\ PartCalled("InodeBitmap::alloc", IsSome(InodeBitmapAlloc(fs.inode_bitmap).idx),
                /\ checked
                /\ IsSome(InodeBitmapAlloc(fs.inode_bitmap).idx)
                /\ fs.inode_bitmap.free_inodes = 0,
                [fs EXCEPT !.inode_bitmap = InodeBitmapAlloc(@).bm], <<>>)

DoInodeBitmapFree(i) ==
  /\ PartReady
  /\ PartCalled("InodeBitmap::free", TRUE, FALSE,
                [fs EXCEPT !.inode_bitmap = InodeBitmapFree(@, i)], <<i>>)

DoInodeBitmapIsUsed(i) ==
  /\ PartReady
  /\ PartCalled("InodeBitmap::is_used", TRUE, InodeBitmapIsUsed(fs.inode_bitmap, i).panic,
                fs, <<i>>)

DoDataBlockBitmapAlloc(checked) ==
  /\ PartReady
  /\ PartCalled("DataBlockBitmap::alloc", IsSome(DataBlockBitmapAlloc(fs.data_bitmap).idx),
                /\ checked
                /\ IsSome(DataBlockBitmapAlloc(fs.data_bitmap).idx)
                /\ fs.data_bitmap.free_blocks = 0,
                [fs EXCEPT !.data_bitmap = DataBlockBitmapAlloc(@).bm], <<>>)

DoDataBlockBitmapFree(i) ==
  /\ PartReady
  /\ PartCalled("DataBlockBitmap::free", TRUE, DataBlockBitmapFree(fs.data_bitmap, i).panic,
                [fs EXCEPT !.data_bitmap = DataBlockBitmapFree(@, i).bm], <<i>>)

DoDataBlockBitmapIsUsed(i) ==
  /\ PartReady
  /\ PartCalled("DataBlockBitmap::is_used", TRUE,
                DataBlockBitmapIsUsed(fs.data_bitmap, i).panic, fs, <<i>>)

\* alloc_inode; the free count of the bitmap can wrap in it as in alloc.
AllocInodeCalled(checked, a) ==
  PartCalled("InodeTable::alloc_inode", IsSome(a.idx),
             a.panic \/ (checked /\ a.bm # fs.inode_bitmap /\ fs.inode_bitmap.free_inodes = 0),
             [fs EXCEPT !.inode_table = a.t, !.inode_bitmap = a.bm], <<>>)

DoAllocInode(checked) ==
  /\ PartReady
  /\ AllocInodeCalled(checked, AllocInode(rev, fs.inode_table, fs.inode_bitmap, "File", 0, 0, 420))

FreeInodeCalled(i, f) ==
  PartCalled("InodeTable::free_inode", TRUE, f.panic,
             [fs EXCEPT !.inode_table = f.t, !.inode_bitmap = f.bm], <<i>>)

DoFreeInode(i) == PartReady /\ FreeInodeCalled(i, FreeInode(fs.inode_table, fs.inode_bitmap, i))

WriteBlockCalled(index, b, w) ==
  PartCalled("DataArea::write_block", w.ok, FALSE, [fs EXCEPT !.data_area = w.da],
             <<index, b>>)

\* write_block of buffer b of PartBuffers.
DoWriteBlock(index, b) ==
  /\ PartReady
  /\ WriteBlockCalled(index, b, DataAreaWriteBlock(fs.data_area, index, PartBuffers[b]))

DataAreaSyncCalled(s) ==
  PartCalled("DataArea::sync", TRUE, FALSE, [fs EXCEPT !.data_area = s.da, !.disk = s.disk],
             <<>>)

DoDataAreaSync == PartReady /\ DataAreaSyncCalled(DataAreaSync(fs.data_area, fs.disk))

DoDataAreaLoad ==
  /\ PartReady
  /\ PartCalled("DataArea::load", TRUE, FALSE,
                [fs EXCEPT !.data_area = DataAreaLoad(@, fs.disk)], <<>>)

NextParts ==
  \/ \E checked \in BOOLEAN : DoInodeBitmapAlloc(checked)
  \/ \E i \in PartIndices(fs.inode_bitmap.total_inodes) : DoInodeBitmapFree(i)
  \/ \E i \in PartIndices(fs.inode_bitmap.total_inodes) : DoInodeBitmapIsUsed(i)
  \/ \E checked \in BOOLEAN : DoDataBlockBitmapAlloc(checked)
  \/ \E i \in PartIndices(fs.data_bitmap.total_blocks) : DoDataBlockBitmapFree(i)
  \/ \E i \in PartIndices(fs.data_bitmap.total_blocks) : DoDataBlockBitmapIsUsed(i)
  \/ \E checked \in BOOLEAN : DoAllocInode(checked)
  \/ \E i \in PartIndices(fs.inode_table.total_inodes) : DoFreeInode(i)
  \/ \E i \in PartIndices(fs.data_area.total_blocks) \cup {fs.data_area.start_block},
        b \in 1 .. Len(PartBuffers) : DoWriteBlock(i, b)
  \/ DoDataAreaSync
  \/ DoDataAreaLoad

SpecParts == InitParts /\ [][NextParts]_vars

\* An image file found at the path: a formatted volume whose block 0 has
\* another magic.  FileDisk::new opens the file that is there.
ForeignDisk ==
  [Format("spec", FileSystemNew("spec", BlankDisk)).fs.disk
     EXCEPT !.blocks[0].val.magic = <<0, 0>>]

InitForeign ==
  /\ rev \in {"src", "spec"}
  /\ fs = FileSystemNew(rev, ForeignDisk)
  /\ aborted = FALSE
  /\ formatted = FALSE
  /\ steps = 0
  /\ last = Call("new", TRUE, <<>>, <<>>, <<>>)
  /\ before = fs

\* The runs of the program over the foreign image.
SpecForeign == InitForeign /\ [][Next]_vars

\* The runs in which the device may fail a write of sync.
\* --------------------------------------------------- a volume in long use
(***************************************************************************)
(* format stores the root directory in the slot of bitmap index 0 plus     *)
(* data_block_start; every later allocation stores the bitmap index as it  *)
(* is.  The two meet when the bitmap grants index data_block_start, which  *)
(* takes data_block_start - 1 allocations after format.  A create_dir      *)
(* whose parent is a file fails after it has allocated an inode and a      *)
(* block and written the block, and releases neither.  The volume here is  *)
(* the one that format, create_file("/", "a") and n such calls             *)
(* create_dir("/a", ".") leave; InitFilled checks, call by call, that the  *)
(* calls do leave it.                                                      *)
(***************************************************************************)
RootSlot == SuperBlockNew(4096).data_block_start

FileParent == <<SLASH, 97>>

\* format(); create_file("/", "a")
LeakBase ==
  CreateFile("spec", Format("spec", FileSystemNew("spec", BlankDisk)).fs, <<SLASH>>, <<97>>).fs

\* The inode create_dir leaves for the directory in block b.
LeakedInode(b) ==
  [InodeNew("Directory", 0, 0, 493) EXCEPT
     !.direct_blocks = [ZeroPtrs EXCEPT ![1] = b],
     !.size = Len(EncodeDirectory(NewDirectory(b + 1)))]

\* LeakBase after n calls create_dir("/a", "."): call k has taken inode
\* k + 1 and block k.
Leaked(n) ==
  [LeakBase EXCEPT
     !.super_block.free_blocks = @ - n,
     !.super_block.dirty = TRUE,
     !.inode_bitmap.bits = @ \cup 2 .. n + 1,
     !.inode_bitmap.free_inodes = @ - n,
     !.data_bitmap.bits = @ \cup 1 .. n,
     !.data_bitmap.free_blocks = @ - n,
     !.inode_table.inodes = [i \in DOMAIN @ \cup 2 .. n + 1 |->
                               IF i \in 2 .. n + 1 THEN LeakedInode(i - 1) ELSE @[i]],
     !.data_area.blocks = [b \in DOMAIN @ \cup 1 .. n |->
                             IF b \in 1 .. n THEN Strip(EncodeDirectory(NewDirectory(b + 1)))
                             ELSE @[b]],
     !.data_area.dirty = @ \cup 1 .. n]

\* Call n + 1 fails and leaves Leaked(n + 1).
LeakedByCall(n, c) == ~c.ok /\ ~c.panic /\ c.fs = Leaked(n + 1)

InitFilled ==
  /\ rev = "spec"
  /\ \A n \in 0 .. RootSlot - 2 :
       LeakedByCall(n, CreateDir("spec", Leaked(n), FileParent, <<DOT>>))
  /\ fs = Leaked(RootSlot - 1)
  /\ aborted = FALSE
  /\ formatted = TRUE
  /\ steps = MaxSteps - MaxFilledSteps
  /\ last = Call("create_dir", FALSE, FileParent, <<DOT>>, <<>>)
  /\ before = Leaked(RootSlot - 2)

\* The calls that make, write, remove and read files and directories.
NextFilled ==
  \/ \E parent \in Parents, name \in Names : DoCreateDir(parent, name)
  \/ \E parent \in Parents, name \in Names : DoCreateFile(parent, name)
  \/ \E parent \in Parents, name \in PathNames, content \in Contents :
       DoWriteFile(parent, name, content)
  \/ \E parent \in Parents, name \in Names, content \in Contents :
       DoCreateOrWriteFile(parent, name, content)
  \/ \E parent \in Parents, name \in Names : DoDeleteFile(parent, name)
  \/ \E parent \in Parents, name \in Names : DoDeleteDir(parent, name)
  \/ \E parent \in Parents : DoListDir(parent)
  \/ \E parent \in Parents, name \in Names : DoReadFile(parent, name)

SpecFilled == InitFilled /\ [][NextFilled]_vars

NextFaulty ==
  \/ Next
  \/ \E k \in 1 .. 5 : DoSyncFailed(k)

SpecFaulty == Init /\ [][NextFaulty]_vars

\* ---------------------------------------------------------------- claims
\* The geometry format lays down: N_I inodes, N_B - data_start data blocks.
N_I == SuperBlockNew(4096).total_inodes

DataBlocks == SuperBlockNew(4096).total_blocks - SuperBlockNew(4096).data_block_start

Live(f, i) == i \in f.inode_bitmap.bits

\* The entries of the directory block of inode i, as find_inode reads them;
\* none when i is no directory or its block does not decode.
EntriesOf(f, i) ==
  LET inode == GetInode(f.inode_table, i)
      data == DataAreaReadBlock(f.data_area, inode[1].direct_blocks[1])
      dir == DecodeDirectory(data[1])
  IN IF ~IsSome(inode) THEN <<>>
     ELSE IF inode[1].inode_type # "Directory" \/ inode[1].direct_blocks[1] = 0 THEN <<>>
     ELSE IF ~IsSome(data) THEN <<>>
     ELSE IF ~dir.ok THEN <<>>
     ELSE dir.dir.entries

Targets(entries) == {entries[k].inode_index : k \in 1 .. Len(entries)}

\* The inodes a path from the root can pass through.
RECURSIVE ReachFrom(_, _, _)
ReachFrom(f, todo, seen) ==
  IF todo = {} THEN seen
  ELSE LET i == Min(todo)
           more == Targets(EntriesOf(f, i)) \ (seen \cup {i})
       IN ReachFrom(f, (todo \ {i}) \cup more, seen \cup {i})

ReachableInodes(f) == ReachFrom(f, {0}, {})

HasEntry(entries, name, target) ==
  \E k \in 1 .. Len(entries) : entries[k].name = name /\ entries[k].inode_index = target

HasName(entries, name) == \E k \in 1 .. Len(entries) : entries[k].name = name

\* The path names an inode that is live and a File.
IsLiveFile(f, path) ==
  LET p == FindInode(f, path)
      inode == GetInode(f.inode_table, p.id)
  IN p.ok /\ Live(f, p.id) /\ IsSome(inode) /\ inode[1].inode_type = "File"

\* What the read operations return over the paths of the model.
Observe(f) ==
  [ list_dir |-> [p \in Parents \cup {Join(q, n) : q \in Parents, n \in Names} |->
                    ListDir(f, p)],
    read_file |-> [pn \in Parents \X Names |-> ReadFile(f, pn[1], pn[2])],
    stat |-> [pn \in Parents \X Names |-> Stat(f, pn[1], pn[2])] ]

LiveInodes(f) == {i \in f.inode_bitmap.bits : IsSome(GetInode(f.inode_table, i))}

IsLiveDirectory(f, path) ==
  /\ FindInode(f, path).ok
  /\ FindInode(f, path).id \in LiveInodes(f)
  /\ GetInode(f.inode_table, FindInode(f, path).id)[1].inode_type = "Directory"

\* The counters of the superblock and the two bitmaps.
Accounting(f) ==
  [ free_inode |-> f.super_block.free_inode,
    free_blocks |-> f.super_block.free_blocks,
    inode_bitmap |-> f.inode_bitmap.bits,
    data_bitmap |-> f.data_bitmap.bits ]

NamesOf(entries) == [k \in 1 .. Len(entries) |-> entries[k].name]

\* C14: format on a new controller returns Ok, and after format, sync and
\* mount, list_dir("/") returns exactly ".", ".." with one inode and one
\* data block in use.
C14_FormatEmptyRoot ==
  /\ []((steps = 1 /\ last.op = "format") => last.ok)
  /\ [][(/\ steps = 2
         /\ formatted
         /\ last.op = "sync"
         /\ last'.op \in {"mount", "reopen"})
        => /\ last'.ok
           /\ ListDir(fs', <<SLASH>>).ok
           /\ NamesOf(ListDir(fs', <<SLASH>>).entries) = << <<DOT>>, <<DOT, DOT>> >>
           /\ Cardinality(fs'.inode_bitmap.bits) = 1
           /\ Cardinality(fs'.data_bitmap.bits) = 1]_vars

\* The inode a path names.
InodeAt(f, path) == GetInode(f.inode_table, FindInode(f, path).id)[1]

\* The blocks an inode points to.
BlocksOf(inode) ==
  {inode.direct_blocks[i] : i \in 1 .. DIRECT_PTRS} \ {0}

EntriesAt(f, path) == EntriesOf(f, FindInode(f, path).id)

\* The directory has an entry besides "." and "..".
HasOtherEntry(entries) ==
  \E k \in 1 .. Len(entries) : entries[k].name \notin {<<DOT>>, <<DOT, DOT>>}

NoInode(f) ==
  ~IsSome(AllocInode(rev, f.inode_table, f.inode_bitmap, "File", 0, 0, 420).idx)

\* data_bitmap.alloc would return None.
NoBlock(f) == ~IsSome(DataBlockBitmapAlloc(f.data_bitmap).idx)

\* The last call got as far as an allocation and the allocation failed.
AllocationFailed ==
  \/ /\ last.op = "create_file"
     /\ ~FindInode(before, Join(last.parent, last.name)).ok
     /\ NoInode(before)
  \/ /\ last.op = "create_dir"
     /\ FindInode(before, last.parent).ok
     /\ IsSome(GetInode(before.inode_table, FindInode(before, last.parent).id))
     /\ (NoInode(before) \/ NoBlock(before))
  \/ /\ last.op = "write_file"
     /\ last.content # <<>>
     /\ FindInode(before, Join(last.parent, last.name)).ok
     /\ FreeFileBlocks(before, FindInode(before, Join(last.parent, last.name)).id).ok
     /\ NoBlock(FreeFileBlocks(before, FindInode(before, Join(last.parent, last.name)).id).fs)

LastPath == Join(last.parent, last.name)

LastHandle == Open(rev, before, LastPath, last.flags).handle

PersistedSuperBlock(disk) ==
  IF 0 \in DOMAIN disk.blocks THEN disk.blocks[0].val ELSE ZeroSuperBlock

\* C22: a mount of a device whose block 0 decodes to a superblock with a
\* magic other than 0xDEADBEEF fails, and the controller is not mounted
\* after it.
C22_MountVerifiesMagic ==
  (/\ last.op \in {"mount", "reopen"}
   /\ ~aborted
   /\ PersistedSuperBlock(before.disk).magic # MAGIC)
    => ~last.ok /\ ~fs.super_block.mounted

\* What the device holds of a controller's structures.
InodeBitmapOnDisk(f, disk) ==
  BitmapLoadBits(disk, f.inode_bitmap.start_block, f.inode_bitmap.total_inodes, 0)
    = f.inode_bitmap.bits

DataBitmapOnDisk(f, disk) ==
  BitmapLoadBits(disk, f.data_bitmap.start_block, f.data_bitmap.total_blocks, 0)
    = f.data_bitmap.bits

TableOnDisk(f, disk) ==
  /\ IsSome(disk.tab)
  /\ disk.tab[1].start = f.inode_table.start_block
  /\ disk.tab[1].inodes = f.inode_table.inodes
  /\ disk.tab[1].len = f.inode_table.len
  /\ disk.tab[1].junk = f.inode_table.junk

SlotBytes(da, i) == IF i \in DOMAIN da.blocks THEN da.blocks[i] ELSE <<>>

DataOnDisk(f, disk) ==
  \A i \in f.data_area.dirty :
    DiskBlockBytes(disk, f.data_area.start_block + i) = SlotBytes(f.data_area, i)

\* What the last call has written to the device.
InodeBitmapWritten ==
  BitmapLoadBits(fs.disk, before.inode_bitmap.start_block,
                 before.inode_bitmap.total_inodes, 0)
    # BitmapLoadBits(before.disk, before.inode_bitmap.start_block,
                     before.inode_bitmap.total_inodes, 0)

DataBitmapWritten ==
  BitmapLoadBits(fs.disk, before.data_bitmap.start_block,
                 before.data_bitmap.total_blocks, 0)
    # BitmapLoadBits(before.disk, before.data_bitmap.start_block,
                     before.data_bitmap.total_blocks, 0)

TableWritten == fs.disk.tab # before.disk.tab

DataWritten ==
  \E i \in before.data_area.dirty :
    LET a == before.data_area.start_block + i
    IN /\ a \in DOMAIN fs.disk.blocks
       /\ fs.disk.blocks[a] = [ kind |-> "data", val |-> SlotBytes(before.data_area, i) ]
       /\ (a \notin DOMAIN before.disk.blocks \/ before.disk.blocks[a] # fs.disk.blocks[a])

SuperBlockWritten ==
  \/ (0 \in DOMAIN fs.disk.blocks) # (0 \in DOMAIN before.disk.blocks)
  \/ PersistedSuperBlock(fs.disk) # PersistedSuperBlock(before.disk)

C23_WitnessOk ==
  /\ formatted
  /\ last.op = "sync"
  /\ last.ok
  /\ before.data_area.dirty # {}
  /\ DataWritten

C25_FormatTransition ==
  last.op = "format"
    => /\ ~aborted
       /\ last.ok
       /\ fs.super_block.mounted
       /\ fs.super_block.dirty

\* The paths the operations are given.
TestPaths == Parents \cup {Join(p, n) : p \in Parents, n \in PathNames}

\* The segments of a path, the empty ones dropped; seg is the segment being
\* read.
RECURSIVE SegmentsFrom(_, _)
SegmentsFrom(path, seg) ==
  IF path = <<>> THEN (IF seg = <<>> THEN <<>> ELSE <<seg>>)
  ELSE IF Head(path) = SLASH
       THEN (IF seg = <<>> THEN <<>> ELSE <<seg>>) \o SegmentsFrom(Tail(path), <<>>)
       ELSE SegmentsFrom(Tail(path), Append(seg, Head(path)))

\* The directory of inode i has a block that decodes.
ReadableDirectory(f, i) ==
  LET inode == GetInode(f.inode_table, i)
      data == DataAreaReadBlock(f.data_area, inode[1].direct_blocks[1])
  IN /\ IsSome(inode)
     /\ inode[1].inode_type = "Directory"
     /\ inode[1].direct_blocks[1] # 0
     /\ IsSome(data)
     /\ DecodeDirectory(data[1]).ok

Outcome(kind, id) == [ kind |-> kind, id |-> id ]

\* What following the entries from inode cur along the segments can give:
\* the inode reached, NotFound for a segment no entry has, NotADirectory
\* for a File with segments left, "other" for an inode or a directory
\* block that cannot be read.
RECURSIVE Outcomes(_, _, _)
Outcomes(f, segs, cur) ==
  LET inode == GetInode(f.inode_table, cur)
      named == {k \in 1 .. Len(EntriesOf(f, cur)) : EntriesOf(f, cur)[k].name = Head(segs)}
  IN IF segs = <<>> THEN {Outcome("ok", cur)}
     ELSE IF ~IsSome(inode) THEN {Outcome("other", 0)}
     ELSE IF inode[1].inode_type = "File" THEN {Outcome("NotADirectory", 0)}
     ELSE IF ~ReadableDirectory(f, cur) THEN {Outcome("other", 0)}
     ELSE IF named = {} THEN {Outcome("NotFound", 0)}
     ELSE UNION {Outcomes(f, Tail(segs), EntriesOf(f, cur)[k].inode_index) : k \in named}

\* What find_inode has returned.
FindInodeOutcome(r) ==
  IF r.ok THEN Outcome("ok", r.id)
  ELSE IF r.err = "Path component not found" THEN Outcome("NotFound", 0)
  ELSE IF r.err = "Path component is not a directory" THEN Outcome("NotADirectory", 0)
  ELSE Outcome("other", 0)

C26_WitnessNotADirectory ==
  /\ formatted
  /\ \E path \in TestPaths :
       FindInodeOutcome(FindInode(fs, path)) = Outcome("NotADirectory", 0)

\* a <= b in the lexicographic order of byte strings.
RECURSIVE LexLeq(_, _)
LexLeq(a, b) ==
  IF a = <<>> THEN TRUE
  ELSE IF b = <<>> THEN FALSE
  ELSE IF Head(a) # Head(b) THEN Head(a) < Head(b)
  ELSE LexLeq(Tail(a), Tail(b))

\* Directory entries before File entries, names ascending in each group.
Listed(entries) ==
  \A i, j \in 1 .. Len(entries) :
    i < j => IF entries[i].entry_type = entries[j].entry_type
             THEN LexLeq(entries[i].name, entries[j].name)
             ELSE entries[i].entry_type = "Directory"

\* Two sequences hold the same entries, each as many times.
SameEntries(s, u) ==
  /\ Len(s) = Len(u)
  /\ \A k \in 1 .. Len(s) :
       Cardinality({i \in 1 .. Len(s) : s[i] = s[k]})
         = Cardinality({i \in 1 .. Len(u) : u[i] = s[k]})

ProgrammerError ==
  \/ /\ last.op \in {"InodeBitmap::free", "InodeBitmap::is_used", "InodeTable::free_inode"}
     /\ last.content[1] >= before.inode_bitmap.total_inodes
  \/ /\ last.op \in {"DataBlockBitmap::free", "DataBlockBitmap::is_used"}
     /\ last.content[1] >= before.data_bitmap.total_blocks
  \/ /\ last.op = "DataArea::write_block"
     /\ \/ last.content[1] >= before.data_area.total_blocks
        \/ Len(PartBuffers[last.content[2]]) > BLOCK_SIZE

\* C29: a bitmap free or is_used with an index >= total, alloc_inode and
\* free_inode on any slot index, and a data-area write of a buffer longer
\* than a block or to a block id out of range return without aborting the
\* program, and those given an index or buffer out of range leave the parts
\* as they were.
C29_NoPanics ==
  /\ (ProgrammerError \/ last.op \in {"InodeTable::alloc_inode", "InodeTable::free_inode"})
       => ~aborted
  /\ (ProgrammerError /\ ~aborted) => fs = before

\* alloc has done what the policy says to a bitmap of `total` bits with
\* the bits `was` set and `free` counted free: nothing when free is 0, else
\* idx is the lowest clear index below total, now set, and free is one less.
AllocatedLowest(total, was, free, ok, idx, bits, now) ==
  IF free = 0 THEN ~ok /\ bits = was /\ now = free
  ELSE /\ ok
       /\ IsSome(idx)
       /\ idx[1] < total
       /\ idx[1] \notin was
       /\ \A i \in 0 .. idx[1] - 1 : i \in was
       /\ bits = was \cup {idx[1]}
       /\ now = free - 1

\* C30: alloc of either bitmap, for a total that is or is not a multiple
\* of 8, returns without aborting; it returns the lowest clear index, which
\* is below total, sets the bit and takes one from free; it returns none
\* exactly when free is 0, and then leaves the bitmap as it was.
C30_AllocationPolicy ==
  /\ last.op = "DataBlockBitmap::alloc"
       => /\ ~aborted
          /\ AllocatedLowest(before.data_bitmap.total_blocks, before.data_bitmap.bits,
                             before.data_bitmap.free_blocks, last.ok,
                             DataBlockBitmapAlloc(before.data_bitmap).idx,
                             fs.data_bitmap.bits, fs.data_bitmap.free_blocks)
  /\ last.op = "InodeBitmap::alloc"
       => /\ ~aborted
          /\ AllocatedLowest(before.inode_bitmap.total_inodes, before.inode_bitmap.bits,
                             before.inode_bitmap.free_inodes, last.ok,
                             InodeBitmapAlloc(before.inode_bitmap).idx,
                             fs.inode_bitmap.bits, fs.inode_bitmap.free_inodes)

\* The cached free count of a bitmap agrees with its bits.
FreeCountAgrees(total, bits, free) ==
  /\ free = total - Cardinality(bits)
  /\ free \in 0 .. total

\* C31: for both bitmaps, after any calls of alloc and free the cached free
\* count is total minus the number of set bits and lies in 0..total; a free
\* of a clear bit or of an index >= total returns and changes nothing.
C31_FreeCountInvariant ==
  /\ FreeCountAgrees(fs.inode_bitmap.total_inodes, fs.inode_bitmap.bits,
                     fs.inode_bitmap.free_inodes)
  /\ FreeCountAgrees(fs.data_bitmap.total_blocks, fs.data_bitmap.bits,
                     fs.data_bitmap.free_blocks)
  /\ (/\ last.op = "InodeBitmap::free"
      /\ \/ last.content[1] >= before.inode_bitmap.total_inodes
         \/ last.content[1] \notin before.inode_bitmap.bits)
       => ~aborted /\ fs = before
  /\ (/\ last.op = "DataBlockBitmap::free"
      /\ \/ last.content[1] >= before.data_bitmap.total_blocks
         \/ last.content[1] \notin before.data_bitmap.bits)
       => ~aborted /\ fs = before

\* A record as Inode::new leaves it.
FreshInode(inode) ==
  /\ inode.id # ""
  /\ inode.link_count = 1
  /\ inode.size = 0
  /\ inode.direct_blocks = ZeroPtrs
  /\ inode.indirect_block = None

\* alloc_inode has granted index idx of table t.
Granted(t, idx) ==
  /\ IsSome(idx)
  /\ idx[1] < t.len
  /\ idx[1] \in DOMAIN t.inodes
  /\ FreshInode(t.inodes[idx[1]])

\* C32: when the inode bitmap has a clear bit below its total and fewer
\* than total_inodes slots of the table are allocated, alloc_inode returns
\* without aborting, succeeds, and the slot at the index that the bitmap
\* granted holds a fresh record (link_count 1, size 0, no block pointers).
C32_AllocInodeAvailable ==
  (/\ last.op = "InodeTable::alloc_inode"
   /\ 0 .. before.inode_bitmap.total_inodes - 1 \ before.inode_bitmap.bits # {}
   /\ AllocatedInodes(before.inode_table) < before.inode_table.total_inodes)
    => /\ ~aborted
       /\ last.ok
       /\ Granted(fs.inode_table, InodeBitmapAlloc(before.inode_bitmap).idx)

\* The absolute block ids of a data area.
AbsoluteIds(da) == da.start_block .. da.start_block + da.total_blocks - 1

\* write_block(a, buf) has stored buf as the slot that read_block(a) returns
\* (a slot is kept without the zeros that fill it up to BLOCK_SIZE), marked
\* it dirty and left the other slots as they were in `was`.
Stored(was, da, a, buf) ==
  /\ DataAreaReadBlock(da, a) = Some(Strip(buf))
  /\ da.dirty = was.dirty \cup {a}
  /\ \A s \in (DOMAIN was.blocks \cup DOMAIN da.blocks) \ {a} :
       DataAreaReadBlock(da, s) = DataAreaReadBlock(was, s)

\* C33: write_block(a, buf) with a an absolute block id of the data area
\* (start_block <= a < start_block + total_blocks) and buf no longer than
\* BLOCK_SIZE succeeds, marks the slot dirty, and read_block(a) returns buf
\* zero-filled while the other slots are unchanged; an id outside that
\* range or a longer buffer is rejected and the data area is unchanged.
C33_DataAreaAddressing ==
  last.op = "DataArea::write_block"
    => IF /\ last.content[1] \in AbsoluteIds(before.data_area)
          /\ Len(PartBuffers[last.content[2]]) <= BLOCK_SIZE
       THEN /\ last.ok
            /\ Stored(before.data_area, fs.data_area, last.content[1],
                      PartBuffers[last.content[2]])
       ELSE ~last.ok /\ fs = before

\* The device blocks of the slots in S.
SlotBlocks(da, S) == {da.start_block + i : i \in S}

\* DataArea::sync has written the slots that were dirty in `was`, and no
\* other block of the device; load reads each of them back from the block
\* it was written to; no slot is dirty and the slots are as they were.
WrittenBack(was, wasdisk, da, disk) ==
  /\ da = [was EXCEPT !.dirty = {}]
  /\ \A i \in was.dirty :
       /\ DiskBlockBytes(disk, was.start_block + i) = DataAreaReadBlock(was, i)[1]
       /\ DataAreaReadBlock(DataAreaLoad(da, disk), i) = DataAreaReadBlock(was, i)
  /\ \A a \in (DOMAIN disk.blocks \cup DOMAIN wasdisk.blocks) \ SlotBlocks(was, was.dirty) :
       DiskBlockBytes(disk, a) = DiskBlockBytes(wasdisk, a)

\* C34: DataArea::sync writes exactly the dirty slots, slot i to the device
\* block start_block + i that load reads slot i from, writes no other
\* block, and leaves no slot dirty; a slot written by write_block is dirty
\* (again, if a sync came before) and so is written by the next sync.
C34_DataAreaWriteBack ==
  /\ last.op = "DataArea::sync"
       => last.ok /\ WrittenBack(before.data_area, before.disk, fs.data_area, fs.disk)
  /\ (last.op = "DataArea::write_block" /\ last.ok)
       => last.content[1] \in fs.data_area.dirty

\* A sync with a dirty slot and, on the device, bytes in the block of a
\* slot that is not dirty.
C34_Witness ==
  /\ last.op = "DataArea::sync"
  /\ before.data_area.dirty # {}
  /\ 0 \notin before.data_area.dirty
  /\ DiskBlockBytes(before.disk, before.data_area.start_block) = <<111>>
  /\ DiskBlockBytes(fs.disk, before.data_area.start_block) = <<111>>

\* A sync of a slot that an earlier sync wrote and a later write_block
\* made dirty again.
C34_WitnessAgain ==
  /\ last.op = "DataArea::sync"
  /\ \E i \in before.data_area.dirty :
       /\ i > 0
       /\ before.data_area.start_block + i \in DOMAIN before.disk.blocks

\* s without its k-th element.
Without(s, k) == SubSeq(s, 1, k - 1) \o SubSeq(s, k + 1, Len(s))

\* entries is `was` with one entry of that name taken out, the others as
\* they were and in the same order.
EntryRemoved(was, entries, name) ==
  \E k \in 1 .. Len(was) : was[k].name = name /\ entries = Without(was, k)

\* The inode delete_file was called on.
DeletedId == FindInode(before, LastPath).id

BlocksOfLive(f, i) == BlocksOf(GetInode(f.inode_table, i)[1])

\* No data-area slot is referenced by two live inodes.
Exclusive(f) ==
  \A i \in LiveInodes(f) : \A j \in LiveInodes(f) :
    i # j => BlocksOfLive(f, i) \cap BlocksOfLive(f, j) = {}

BitsOfInode(f, i) ==
  BlocksOfLive(f, i) \cup {b - f.data_area.start_block : b \in BlocksOfLive(f, i)}

\* The inodes a path from the root reaches that are in the table.
ReachableLive(f) == {i \in ReachableInodes(f) : IsSome(GetInode(f.inode_table, i))}

SuperBlockRegion == {0}

BitmapRegion(start_block, byte_len) ==
  start_block .. start_block + ((byte_len + BLOCK_SIZE - 1) \div BLOCK_SIZE) - 1

TableRegion(f) ==
  f.inode_table.start_block ..
    f.inode_table.start_block + TableBlocks(TableSerializedLen(f.inode_table)) - 1

DataRegion(f) == SlotBlocks(f.data_area, f.data_area.dirty)

Regions(f) ==
  << SuperBlockRegion,
     BitmapRegion(f.inode_bitmap.start_block, f.inode_bitmap.byte_len),
     BitmapRegion(f.data_bitmap.start_block, f.data_bitmap.byte_len),
     TableRegion(f),
     DataRegion(f) >>

PairwiseDisjoint(regions) ==
  \A i \in 1 .. Len(regions) : \A j \in 1 .. Len(regions) :
    i # j => regions[i] \cap regions[j] = {}

CountersOnDisk(f, disk) ==
  /\ PersistedSuperBlock(disk).free_blocks = f.super_block.free_blocks
  /\ PersistedSuperBlock(disk).free_inode = f.super_block.free_inode

\* A structure of f differs from what the device holds of it.
Pending(f) ==
  ~ /\ InodeBitmapOnDisk(f, f.disk)
    /\ DataBitmapOnDisk(f, f.disk)
    /\ TableOnDisk(f, f.disk)
    /\ DataOnDisk(f, f.disk)
    /\ CountersOnDisk(f, f.disk)

=============================================================================
